---------------------------- MODULE Spec2Model ----------------------------
(***************************************************************************)
(* GitFlix: a video stored as a linear chain of git commits, one frame    *)
(* blob per commit.  This module models                                    *)
(*   - the frame container      (src/src/frame_format.c),                  *)
(*   - the compression engine   (src/src/compression.c),                   *)
(*   - the encoder pipeline     (src/unnamed/part_002, encoder_lib.c) and  *)
(*     the git object store it writes through (src/src/git_ops.c),         *)
(*   - the threaded player      (src/src/player.c).                        *)
(*                                                                         *)
(* Conventions.  A byte is a number in 0..255, a buffer is a sequence of   *)
(* bytes (C offset k is TLA+ index k+1).  A 32-bit word that can exceed    *)
(* 2^31 (the CRC) is the tuple of its four bytes, low byte first.          *)
(* malloc is taken to succeed.  A C variable read before it is written is  *)
(* a nondeterministic choice among the values named in the action.         *)
(***************************************************************************)
EXTENDS Integers, Sequences, FiniteSets, TLC

(***************************************************************************)
(* Program constants (src/src/git_vid_codec.h)                             *)
(***************************************************************************)
GVC_SUCCESS == 0
GVC_ERROR_MEMORY == -1
GVC_ERROR_IO == -2
GVC_ERROR_GIT == -3
GVC_ERROR_COMPRESSION == -4
GVC_ERROR_FORMAT == -5
GVC_ERROR_DISPLAY == -6

\* FRAME_MAGIC 0x47564346, "GVCF" (frame_format.c:4)
FRAME_MAGIC == 1196835654

\* sizeof(uint32_t) + sizeof(frame_header_t) = 4 + 28 (frame_format.c:10, :39)
HEADER_BYTES == 32

FRAME_CHANNELS == 3

\* longest run one command of the delta transform carries (compression.c:28, :42)
MAX_RUN == 255

\* capacity of the commits array of play_from_repo (player.c:453-454)
PLAY_MAX_COMMITS == 1000

\* frames per second and the frame interval in nanoseconds, with C's integer
\* division (git_vid_codec.h:16-17)
TARGET_FPS == 60
FRAME_TIME_NS == 1000000000 \div TARGET_FPS

(***************************************************************************)
(* Bounds of the model.  FRAME_WIDTH x FRAME_HEIGHT is the build-time       *)
(* frame size (1920 x 1080 in git_vid_codec.h:12-13), scaled down so that  *)
(* a frame is FRAME_WIDTH * FRAME_HEIGHT * FRAME_CHANNELS = 3 bytes.       *)
(* num_frames scales the 600 frames of encode_video_sequence,              *)
(* FRAME_BUFFER_SIZE the 16 slots of the player's frame queue              *)
(* (player.c:14), RING_BUFFER_SIZE the 16 slots of the Metal player's      *)
(* ring (git_vid_codec.h:160), and num_commits is the number of commit     *)
(* hashes handed to a threaded player.                                     *)
(***************************************************************************)
FRAME_WIDTH == 1
FRAME_HEIGHT == 1
num_frames == 3
FRAME_BUFFER_SIZE == 2
RING_BUFFER_SIZE == 2
num_commits == 4
PREFETCH_CACHE_SIZE == 2
MaxBlobs == 3
MaxCommands == 5

FRAME_SIZE == FRAME_WIDTH * FRAME_HEIGHT * FRAME_CHANNELS

(***************************************************************************)
(* Bytes, little-endian words                                              *)
(***************************************************************************)
RECURSIVE Pow2(_)
Pow2(k) == IF k = 0 THEN 1 ELSE 2 * Pow2(k - 1)

\* the byte b with bit k inverted
FlipBit(b, k) == IF (b \div Pow2(k)) % 2 = 1 THEN b - Pow2(k) ELSE b + Pow2(k)

\* memcpy of a uint32_t below 2^31 into a buffer on a little-endian machine
LE32(n) == << n % 256, (n \div 256) % 256, (n \div 65536) % 256, (n \div 16777216) % 256 >>

\* memcpy of four buffer bytes (C offset off) into a uint32_t; the model only
\* reads words below 2^31 this way
ReadLE32(buf, off) ==
    buf[off + 1] + 256 * buf[off + 2] + 65536 * buf[off + 3] + 16777216 * buf[off + 4]

\* the bytes of buf at C offsets off .. off+n-1
Slice(buf, off, n) == SubSeq(buf, off + 1, off + n)

(***************************************************************************)
(* CRC-32 as zlib's crc32() computes it (reflected polynomial 0xEDB88320,  *)
(* pre- and post-inversion, one table lookup per byte).  The 32-bit        *)
(* register is held as its four bytes, least significant first.            *)
(***************************************************************************)
RECURSIVE XorBitwise(_, _, _)
XorBitwise(a, b, n) ==
    IF n = 0 THEN 0 ELSE ((a + b) % 2) + 2 * XorBitwise(a \div 2, b \div 2, n - 1)

\* a ^ b for bytes, tabulated once
XorTable ==
    << >> \o [a \in 1..256 |-> << >> \o [b \in 1..256 |-> XorBitwise(a - 1, b - 1, 8)]]
Xor8(a, b) == XorTable[a + 1][b + 1]
Xor32(x, y) == << Xor8(x[1], y[1]), Xor8(x[2], y[2]), Xor8(x[3], y[3]), Xor8(x[4], y[4]) >>

\* 0xEDB88320 and 0xFFFFFFFF
CRC32_POLY == << 32, 131, 184, 237 >>
AllOnes32 == << 255, 255, 255, 255 >>

ShiftRight1(x) ==
    << (x[1] \div 2) + 128 * (x[2] % 2), (x[2] \div 2) + 128 * (x[3] % 2),
       (x[3] \div 2) + 128 * (x[4] % 2), x[4] \div 2 >>

\* one bit of the register: c = (c >> 1) ^ (poly & -(c & 1))
CrcBit(c) == IF c[1] % 2 = 1 THEN Xor32(ShiftRight1(c), CRC32_POLY) ELSE ShiftRight1(c)

\* crc_table[n]: eight register steps from n
crc_table ==
    << >> \o [n \in 1..256 |->
                CrcBit(CrcBit(CrcBit(CrcBit(CrcBit(CrcBit(CrcBit(CrcBit(
                    << n - 1, 0, 0, 0 >>))))))))]

\* one byte: c = crc_table[(c ^ b) & 0xff] ^ (c >> 8)
CrcByte(reg, b) ==
    LET t == crc_table[Xor8(reg[1], b) + 1] IN
    << Xor8(reg[2], t[1]), Xor8(reg[3], t[2]), Xor8(reg[4], t[3]), t[4] >>

\* the register after bytes[lo..hi], taken byte by byte in order; the range
\* is split in two to keep the evaluation shallow, and the test on reg makes
\* TLC compute it before it goes on
RECURSIVE CrcUpdate(_, _, _, _)
CrcUpdate(reg, bytes, lo, hi) ==
    IF Len(reg) # 4 \/ lo > hi THEN reg
    ELSE IF lo = hi THEN CrcByte(reg, bytes[lo])
    ELSE CrcUpdate(CrcUpdate(reg, bytes, lo, (lo + hi) \div 2), bytes,
                   (lo + hi) \div 2 + 1, hi)

crc32(crc, data) ==
    Xor32(CrcUpdate(Xor32(crc, AllOnes32), data, 1, Len(data)), AllOnes32)

\* calculate_checksum: crc32(0L, data, size)
calculate_checksum(data) == crc32(<< 0, 0, 0, 0 >>, data)

(***************************************************************************)
(* Frame container (src/src/frame_format.c)                                *)
(***************************************************************************)
\* frame_header_t and frame_t (git_vid_codec.h:29-44); data = <<>> is NULL
MakeHeader(fn, w, h, c, csize, crc, ctype, rsv) ==
    [frame_number |-> fn, width |-> w, height |-> h, channels |-> c,
     compressed_size |-> csize, checksum |-> crc, compression_type |-> ctype,
     reserved |-> rsv]

MakeFrame(hdr, data) == [header |-> hdr, data |-> data, data_size |-> Len(data)]

\* the 28 bytes memcpy copies out of a frame_header_t
HeaderBytes(h) ==
    LE32(h.frame_number) \o LE32(h.width) \o LE32(h.height) \o LE32(h.channels)
      \o LE32(h.compressed_size) \o h.checksum
      \o << h.compression_type >> \o h.reserved

\* the frame_header_t memcpy fills from the 28 bytes at C offset off
ReadHeader(buf, off) ==
    MakeHeader(ReadLE32(buf, off), ReadLE32(buf, off + 4), ReadLE32(buf, off + 8),
               ReadLE32(buf, off + 12), ReadLE32(buf, off + 16),
               Slice(buf, off + 20, 4), buf[off + 25], Slice(buf, off + 25, 3))

\* serialize_frame: magic, header, then data_size bytes of data
serialize_frame(frame) ==
    LE32(FRAME_MAGIC) \o HeaderBytes(frame.header)
      \o (IF frame.data # << >> /\ frame.data_size > 0
            THEN SubSeq(frame.data, 1, frame.data_size) ELSE << >>)

NoFrame == [header |-> << >>, data |-> << >>, data_size |-> 0]

\* a deserialize_frame that accepts the payload without comparing its checksum
deserialize_frame_unchecked(buffer) ==
    IF Len(buffer) < HEADER_BYTES \/ ReadLE32(buffer, 0) # FRAME_MAGIC
      THEN [result |-> GVC_ERROR_FORMAT, frame |-> NoFrame]
      ELSE LET hdr == ReadHeader(buffer, 4) IN
           IF hdr.width # FRAME_WIDTH \/ hdr.height # FRAME_HEIGHT
                \/ hdr.channels # FRAME_CHANNELS
                \/ HEADER_BYTES + hdr.compressed_size > Len(buffer)
             THEN [result |-> GVC_ERROR_FORMAT, frame |-> NoFrame]
             ELSE [result |-> GVC_SUCCESS,
                   frame |-> [header |-> hdr,
                              data |-> Slice(buffer, HEADER_BYTES, hdr.compressed_size),
                              data_size |-> hdr.compressed_size]]

\* a deserialize_frame that reads the header one byte late
deserialize_frame_shifted(buffer) ==
    IF Len(buffer) < HEADER_BYTES + 1 \/ ReadLE32(buffer, 0) # FRAME_MAGIC
      THEN [result |-> GVC_ERROR_FORMAT, frame |-> NoFrame]
      ELSE [result |-> GVC_SUCCESS,
            frame |-> [header |-> ReadHeader(buffer, 5), data |-> << >>, data_size |-> 0]]

\* deserialize_frame: result code and *frame_out (NoFrame when it fails)
deserialize_frame(buffer) ==
    LET size == Len(buffer) IN
    IF size < HEADER_BYTES
      THEN [result |-> GVC_ERROR_FORMAT, frame |-> NoFrame]
    ELSE IF ReadLE32(buffer, 0) # FRAME_MAGIC
      THEN [result |-> GVC_ERROR_FORMAT, frame |-> NoFrame]
    ELSE LET hdr == ReadHeader(buffer, 4) IN
      IF hdr.width # FRAME_WIDTH \/ hdr.height # FRAME_HEIGHT
           \/ hdr.channels # FRAME_CHANNELS
        THEN [result |-> GVC_ERROR_FORMAT, frame |-> NoFrame]
      ELSE IF HEADER_BYTES + hdr.compressed_size > size
        THEN [result |-> GVC_ERROR_FORMAT, frame |-> NoFrame]
      ELSE IF hdr.compressed_size > 0
        THEN LET data == Slice(buffer, HEADER_BYTES, hdr.compressed_size) IN
             IF calculate_checksum(data) # hdr.checksum
               THEN [result |-> GVC_ERROR_FORMAT, frame |-> NoFrame]
               ELSE [result |-> GVC_SUCCESS,
                     frame |-> [header |-> hdr, data |-> data,
                                data_size |-> hdr.compressed_size]]
      ELSE [result |-> GVC_SUCCESS,
            frame |-> [header |-> hdr, data |-> << >>, data_size |-> 0]]

\* a deserialize_frame that copies the payload without the size test
deserialize_frame_extent_unguarded(buffer) ==
    IF Len(buffer) < HEADER_BYTES THEN 0
    ELSE IF ReadLE32(buffer, 0) # FRAME_MAGIC THEN 4
    ELSE LET hdr == ReadHeader(buffer, 4) IN
      IF hdr.width # FRAME_WIDTH \/ hdr.height # FRAME_HEIGHT
           \/ hdr.channels # FRAME_CHANNELS
        THEN HEADER_BYTES
        ELSE HEADER_BYTES + hdr.compressed_size

\* the number of leading bytes of buffer deserialize_frame reads: none when
\* size < 32, the magic when it is wrong, magic and header when the header
\* or the size test fails, and the payload as well when memcpy copies it
deserialize_frame_extent(buffer) ==
    LET size == Len(buffer) IN
    IF size < HEADER_BYTES THEN 0
    ELSE IF ReadLE32(buffer, 0) # FRAME_MAGIC THEN 4
    ELSE LET hdr == ReadHeader(buffer, 4) IN
      IF hdr.width # FRAME_WIDTH \/ hdr.height # FRAME_HEIGHT
           \/ hdr.channels # FRAME_CHANNELS
        THEN HEADER_BYTES
      ELSE IF HEADER_BYTES + hdr.compressed_size > size
        THEN HEADER_BYTES
      ELSE HEADER_BYTES + hdr.compressed_size

(***************************************************************************)
(* Entropy coder.  compression_encode_buffer / compression_decode_buffer   *)
(* (COMPRESSION_LZFSE) are Apple library calls, not code of the            *)
(* repository.  They are modelled by their contract, as a stored block:    *)
(* one length byte, then the complement of each source byte.               *)
(* Decoding a malformed stream returns 0 bytes; a decoded stream longer    *)
(* than the destination is cut to the destination's capacity.              *)
(***************************************************************************)
compression_encode_buffer(src) ==
    << Len(src) >> \o [i \in 1..Len(src) |-> 255 - src[i]]

compression_decode_buffer(dst_size, src) ==
    IF Len(src) = 0 \/ src[1] # Len(src) - 1
      THEN << >>
      ELSE LET n == IF src[1] < dst_size THEN src[1] ELSE dst_size IN
           << >> \o [i \in 1..n |-> 255 - src[i + 1]]

(***************************************************************************)
(* Compression engine (src/src/compression.c)                              *)
(***************************************************************************)
\* raw_frame_t (git_vid_codec.h:46-51); pixels = <<>> is NULL
MakeRaw(pixels) ==
    [pixels |-> pixels, width |-> FRAME_WIDTH, height |-> FRAME_HEIGHT,
     channels |-> FRAME_CHANNELS]

NoRaw == [pixels |-> << >>, width |-> 0, height |-> 0, channels |-> 0]

\* (int8_t)b widened to int16_t
SignExtend(b) == IF b >= 128 THEN b - 256 ELSE b

\* (uint8_t)(delta & 0xFF) of an int16_t delta
LowByte(d) == (d + 256) % 256

Min2(a, b) == IF a < b THEN a ELSE b
Max2(a, b) == IF a > b THEN a ELSE b
CLAMP(x, lo, hi) == Min2(Max2(x, lo), hi)

\* the inner while loops of compress_frame_delta: the run of positions from
\* C index i on (at most MAX_RUN of them) where cur and prev agree (same = TRUE)
\* or differ (same = FALSE).  Counting from run, the loop stops at the first
\* count r at which its condition fails.
RunLength(cur, prev, i, same, run) ==
    LET Continues(r) ==
          /\ i + r < Len(cur)
          /\ ((cur[i + r + 1] = prev[i + r + 1]) = same)
          /\ r < MAX_RUN
    IN CHOOSE r \in run..MAX_RUN :
         ~Continues(r) /\ \A q \in run..(r - 1) : Continues(q)

\* the outer while loop of compress_frame_delta: delta_buffer[0 .. delta_pos-1]
RECURSIVE DeltaTransform(_, _, _)
DeltaTransform(cur, prev, i) ==
    IF i >= Len(cur) THEN << >>
    ELSE LET identical_run == RunLength(cur, prev, i, TRUE, 0) IN
         IF identical_run > 0
           THEN << 0, identical_run >> \o DeltaTransform(cur, prev, i + identical_run)
           ELSE LET diff_run == RunLength(cur, prev, i, FALSE, 0) IN
                IF diff_run > 0
                  THEN << 1, diff_run >>
                         \o [j \in 1..diff_run |-> LowByte(cur[i + j] - prev[i + j])]
                         \o DeltaTransform(cur, prev, i + diff_run)
                  ELSE DeltaTransform(cur, prev, i + 1)

\* compress_frame_delta wrote more than the pixel_count * 2 bytes it allocated
\* for delta_buffer (compression.c:17)
DeltaBufferOverflows(current, previous) ==
    Len(DeltaTransform(current.pixels, previous.pixels, 0))
      > current.width * current.height * current.channels * 2

\* compress_frame_delta: result code and *output.  output is the caller's
\* frame_t; the fields the function does not assign (reserved) keep the
\* caller's value.
compress_frame_delta(current, previous, output) ==
    IF current.width # previous.width \/ current.height # previous.height
         \/ current.channels # previous.channels
      THEN [result |-> GVC_ERROR_FORMAT, frame |-> output]
      ELSE LET pixel_count == current.width * current.height * current.channels
               delta_buffer == DeltaTransform(SubSeq(current.pixels, 1, pixel_count),
                                              previous.pixels, 0)
               compressed_data == compression_encode_buffer(delta_buffer)
           IN [result |-> GVC_SUCCESS,
               frame |-> [header |-> MakeHeader(0, current.width, current.height,
                                                current.channels, Len(compressed_data),
                                                calculate_checksum(compressed_data),
                                                1, output.header.reserved),
                          data |-> compressed_data,
                          data_size |-> Len(compressed_data)]]

\* the for loop of decompress_frame_delta's 0x01 branch; returns the pixels and
\* both cursors
RECURSIVE ApplyRun(_, _, _, _, _, _)
ApplyRun(db, out, delta_pos, pixel_pos, i, run_length) ==
    IF i < run_length /\ pixel_pos < Len(out) /\ delta_pos < Len(db)
      THEN LET delta == SignExtend(db[delta_pos + 1])
               new_value == out[pixel_pos + 1] + delta
           IN ApplyRun(db, [out EXCEPT ![pixel_pos + 1] = CLAMP(new_value, 0, 255)],
                       delta_pos + 1, pixel_pos + 1, i + 1, run_length)
      ELSE [out |-> out, delta_pos |-> delta_pos, pixel_pos |-> pixel_pos]

\* the while loop of decompress_frame_delta
RECURSIVE ApplyDeltas(_, _, _, _)
ApplyDeltas(db, out, delta_pos, pixel_pos) ==
    IF ~(delta_pos < Len(db) /\ pixel_pos < Len(out)) THEN out
    ELSE IF delta_pos + 1 >= Len(db) THEN out
    ELSE LET command == db[delta_pos + 1]
             run_length == db[delta_pos + 2]
         IN IF command = 0
              THEN ApplyDeltas(db, out, delta_pos + 2, pixel_pos + run_length)
            ELSE IF command = 1
              THEN LET r == ApplyRun(db, out, delta_pos + 2, pixel_pos, 0, run_length)
                   IN ApplyDeltas(db, r.out, r.delta_pos, r.pixel_pos)
            ELSE ApplyDeltas(db, out, delta_pos + 2, pixel_pos)

\* decompress_frame_delta: result code and *output.  previous holds at least
\* pixel_count bytes wherever the model calls it.
decompress_frame_delta(compressed, previous) ==
    LET pixel_count == compressed.header.width * compressed.header.height
                         * compressed.header.channels
        delta_buffer == compression_decode_buffer(pixel_count * 2, compressed.data)
    IN IF Len(delta_buffer) = 0
         THEN [result |-> GVC_ERROR_COMPRESSION, raw |-> NoRaw]
         ELSE [result |-> GVC_SUCCESS,
               raw |-> [pixels |-> ApplyDeltas(delta_buffer,
                                      SubSeq(previous.pixels, 1, pixel_count), 0, 0),
                        width |-> compressed.header.width,
                        height |-> compressed.header.height,
                        channels |-> compressed.header.channels]]

\* a 0x01 loop that runs for run_length rounds whatever the cursors are
InRunUnbounded(i, run_length, pixel_pos, pixel_count, delta_pos, delta_size) ==
    i < run_length

\* the condition of the for loop of decompress_frame_delta's 0x01 branch
InRun(i, run_length, pixel_pos, pixel_count, delta_pos, delta_size) ==
    i < run_length /\ pixel_pos < pixel_count /\ delta_pos < delta_size

\* the memory the for loop of the 0x01 branch touches: each round reads
\* delta_buffer[delta_pos] and reads and writes output->pixels[pixel_pos].
\* acc holds the C indexes used so far
RECURSIVE RunAccess(_, _, _, _, _, _, _)
RunAccess(delta_size, pixel_count, delta_pos, pixel_pos, i, run_length, acc) ==
    IF InRun(i, run_length, pixel_pos, pixel_count, delta_pos, delta_size)
      THEN RunAccess(delta_size, pixel_count, delta_pos + 1, pixel_pos + 1, i + 1,
                     run_length,
                     [read |-> acc.read \cup {delta_pos},
                      written |-> acc.written \cup {pixel_pos}])
      ELSE [acc |-> acc, delta_pos |-> delta_pos, pixel_pos |-> pixel_pos]

\* the memory the while loop of decompress_frame_delta touches: the C indexes
\* at which it reads delta_buffer (command, run_length, deltas) and those at
\* which it writes output->pixels
RECURSIVE DeltaAccess(_, _, _, _, _)
DeltaAccess(db, pixel_count, delta_pos, pixel_pos, acc) ==
    IF ~(delta_pos < Len(db) /\ pixel_pos < pixel_count) THEN acc
    ELSE LET command_read == [acc EXCEPT !.read = @ \cup {delta_pos}] IN
         IF delta_pos + 1 >= Len(db) THEN command_read
         ELSE LET command == db[delta_pos + 1]
                  run_length == db[delta_pos + 2]
                  both_read == [command_read EXCEPT !.read = @ \cup {delta_pos + 1}]
              IN IF command = 0
                   THEN DeltaAccess(db, pixel_count, delta_pos + 2,
                                    pixel_pos + run_length, both_read)
                 ELSE IF command = 1
                   THEN LET r == RunAccess(Len(db), pixel_count, delta_pos + 2,
                                           pixel_pos, 0, run_length, both_read)
                        IN DeltaAccess(db, pixel_count, r.delta_pos, r.pixel_pos, r.acc)
                 ELSE DeltaAccess(db, pixel_count, delta_pos + 2, pixel_pos, both_read)

\* a compress_frame_raw that labels its record as DELTA
compress_frame_raw_as_delta(input, output) ==
    LET compressed_data == compression_encode_buffer(input.pixels) IN
    [result |-> GVC_SUCCESS,
     frame |-> [header |-> MakeHeader(0, input.width, input.height, input.channels,
                                      Len(compressed_data),
                                      calculate_checksum(compressed_data),
                                      1, output.header.reserved),
                data |-> compressed_data,
                data_size |-> Len(compressed_data)]]

\* compress_frame_raw: result code and *output (reserved keeps the caller's value)
compress_frame_raw(input, output) ==
    LET pixel_count == input.width * input.height * input.channels
        compressed_data == compression_encode_buffer(SubSeq(input.pixels, 1, pixel_count))
    IN [result |-> GVC_SUCCESS,
        frame |-> [header |-> MakeHeader(0, input.width, input.height, input.channels,
                                         Len(compressed_data),
                                         calculate_checksum(compressed_data),
                                         0, output.header.reserved),
                   data |-> compressed_data,
                   data_size |-> Len(compressed_data)]]

\* decompress_frame_raw: result code and *output
decompress_frame_raw(compressed) ==
    LET pixel_count == compressed.header.width * compressed.header.height
                         * compressed.header.channels
        pixels == compression_decode_buffer(pixel_count, compressed.data)
    IN IF Len(pixels) = 0 \/ Len(pixels) # pixel_count
         THEN [result |-> GVC_ERROR_COMPRESSION, raw |-> NoRaw]
         ELSE [result |-> GVC_SUCCESS,
               raw |-> [pixels |-> pixels, width |-> compressed.header.width,
                        height |-> compressed.header.height,
                        channels |-> compressed.header.channels]]

(***************************************************************************)
(* Object store (src/src/git_ops.c).  The git subprocesses are modelled by *)
(* their effect on the repository: commits is the list of commit objects   *)
(* in creation order, a commit id is its position in that list (0 is the   *)
(* empty hash string), a blob id is the blob's content, and head is what   *)
(* HEAD resolves to (0 before the first commit).  fail names the git       *)
(* command that exits non-zero, "none" when all succeed.                   *)
(***************************************************************************)
EmptyStore == [commits |-> << >>, head |-> 0]

GitFailures == {"none", "hash_object", "mktree", "commit_tree", "update_ref"}

\* git_create_blob: git hash-object -w of the bytes
git_create_blob(data, fail) ==
    IF fail = "hash_object"
      THEN [result |-> GVC_ERROR_GIT, hash |-> << >>]
      ELSE [result |-> GVC_SUCCESS, hash |-> data]

\* a git_create_commit that never passes -p to git commit-tree
git_create_commit_orphan(store, blob_hash, parent_hash, commit_hash_out, fail) ==
    IF fail \in {"mktree", "commit_tree"}
      THEN [result |-> GVC_ERROR_GIT, store |-> store, hash |-> commit_hash_out]
      ELSE LET made == Append(store.commits, [tree |-> blob_hash, parent |-> 0]) IN
           [result |-> IF fail = "update_ref" THEN GVC_ERROR_GIT ELSE GVC_SUCCESS,
            store |-> [commits |-> made,
                       head |-> IF fail = "update_ref" THEN store.head ELSE Len(made)],
            hash |-> Len(made)]

\* git_create_commit: mktree, commit-tree (with -p when parent_hash is a
\* non-empty string), update-ref HEAD
git_create_commit(store, blob_hash, parent_hash, commit_hash_out, fail) ==
    IF fail = "mktree"
      THEN [result |-> GVC_ERROR_GIT, store |-> store, hash |-> commit_hash_out]
    ELSE IF fail = "commit_tree"
      THEN [result |-> GVC_ERROR_GIT, store |-> store, hash |-> commit_hash_out]
    ELSE LET made == Append(store.commits, [tree |-> blob_hash, parent |-> parent_hash])
             id == Len(made)
         IN IF fail = "update_ref"
              THEN [result |-> GVC_ERROR_GIT,
                    store |-> [commits |-> made, head |-> store.head], hash |-> id]
              ELSE [result |-> GVC_SUCCESS,
                    store |-> [commits |-> made, head |-> id], hash |-> id]

\* git log: the commits reachable from id through parent links, newest first
RECURSIVE GitLog(_, _)
GitLog(store, id) ==
    IF id = 0 THEN << >> ELSE << id >> \o GitLog(store, store.commits[id].parent)

RECURSIVE Reverse(_)
Reverse(seq) == IF seq = << >> THEN << >> ELSE Reverse(Tail(seq)) \o << Head(seq) >>

\* git_get_commit_chain: git log --reverse --format=%H, at most max_commits lines
git_get_commit_chain(store, max_commits) ==
    LET lines == Reverse(GitLog(store, store.head)) IN
    SubSeq(lines, 1, Min2(Len(lines), max_commits))

\* git_read_frame_from_commit: git show <commit>:frame.bin
git_read_frame_from_commit(store, commit_hash) ==
    IF commit_hash \notin 1..Len(store.commits)
         \/ Len(store.commits[commit_hash].tree) = 0
      THEN [result |-> GVC_ERROR_GIT, data |-> << >>]
      ELSE [result |-> GVC_SUCCESS, data |-> store.commits[commit_hash].tree]

(***************************************************************************)
(* Encoder (src/unnamed/part_002)                                          *)
(***************************************************************************)
\* an encode_frame_to_commit that reports success when git_create_blob failed
encode_frame_to_commit_swallow(current_frame, previous_frame, frame_number, parent_commit_hash, commit_hash_out, store, garbage, fail) ==
    LET c == IF previous_frame # NoRaw
               THEN compress_frame_delta(current_frame, previous_frame, garbage)
               ELSE compress_frame_raw(current_frame, garbage)
        compressed_frame == [c.frame EXCEPT !.header.frame_number = frame_number]
        b == git_create_blob(serialize_frame(compressed_frame), fail)
    IN IF c.result # GVC_SUCCESS
         THEN [result |-> c.result, store |-> store, hash |-> commit_hash_out]
       ELSE IF b.result # GVC_SUCCESS
         THEN [result |-> GVC_SUCCESS, store |-> store, hash |-> commit_hash_out]
         ELSE git_create_commit(store, b.hash, parent_commit_hash, commit_hash_out, fail)

\* encode_frame_to_commit.  previous_frame = NoRaw is the NULL pointer;
\* garbage is what the uninitialised local compressed_frame holds.
encode_frame_to_commit(current_frame, previous_frame, frame_number, parent_commit_hash, commit_hash_out, store, garbage, fail) ==
    LET c == IF previous_frame # NoRaw
               THEN compress_frame_delta(current_frame, previous_frame, garbage)
               ELSE compress_frame_raw(current_frame, garbage)
    IN IF c.result # GVC_SUCCESS
         THEN [result |-> c.result, store |-> store, hash |-> commit_hash_out]
       ELSE LET compressed_frame ==
                    [c.frame EXCEPT !.header.frame_number = frame_number]
                frame_buffer == serialize_frame(compressed_frame)
                b == git_create_blob(frame_buffer, fail)
            IN IF b.result # GVC_SUCCESS
                 THEN [result |-> b.result, store |-> store, hash |-> commit_hash_out]
                 ELSE git_create_commit(store, b.hash, parent_commit_hash,
                                        commit_hash_out, fail)

(***************************************************************************)
(* Sequential player (src/src/player.c)                                    *)
(***************************************************************************)
\* decode_and_display_frame up to the display call: read the commit's blob,
\* deserialize, decompress by compression_type.  previous_frame = NoRaw is NULL.
decode_and_display_frame(store, commit_hash, previous_frame) ==
    LET rd == git_read_frame_from_commit(store, commit_hash) IN
    IF rd.result # GVC_SUCCESS THEN [result |-> rd.result, raw |-> NoRaw]
    ELSE LET d == deserialize_frame(rd.data) IN
      IF d.result # GVC_SUCCESS THEN [result |-> d.result, raw |-> NoRaw]
      ELSE IF d.frame.header.compression_type = 0
        THEN decompress_frame_raw(d.frame)
      ELSE IF d.frame.header.compression_type = 1
        THEN IF previous_frame = NoRaw
               THEN [result |-> GVC_ERROR_FORMAT, raw |-> NoRaw]
               ELSE decompress_frame_delta(d.frame, previous_frame)
      ELSE [result |-> GVC_ERROR_FORMAT, raw |-> NoRaw]

(***************************************************************************)
(* Frame queue of the threaded player (src/src/player.c).  queue holds the *)
(* four globals frame_buffer, buffer_read_pos, buffer_write_pos and        *)
(* buffer_count.  A slot is a raw frame together with the position in      *)
(* commit_hashes of the commit it was decoded from (kept for the record;   *)
(* the program stores only the frame).                                     *)
(***************************************************************************)
NoSlot == [frame |-> NoRaw, commit |-> -1]

EmptyQueue ==
    [frame_buffer |-> [k \in 1..FRAME_BUFFER_SIZE |-> NoSlot],
     buffer_read_pos |-> 0, buffer_write_pos |-> 0, buffer_count |-> 0]

\* a buffer_put_frame that stores the frame and forgets buffer_count++
buffer_put_frame_uncounted(q, slot) ==
    [frame_buffer |-> [q.frame_buffer EXCEPT ![q.buffer_write_pos + 1] = slot],
     buffer_read_pos |-> q.buffer_read_pos,
     buffer_write_pos |-> (q.buffer_write_pos + 1) % FRAME_BUFFER_SIZE,
     buffer_count |-> q.buffer_count]

\* the critical section of buffer_put_frame once there is room
buffer_put_frame(q, slot) ==
    [frame_buffer |-> [q.frame_buffer EXCEPT ![q.buffer_write_pos + 1] = slot],
     buffer_read_pos |-> q.buffer_read_pos,
     buffer_write_pos |-> (q.buffer_write_pos + 1) % FRAME_BUFFER_SIZE,
     buffer_count |-> q.buffer_count + 1]

\* a buffer_get_frame that hands out the newest frame instead of the oldest
buffer_get_frame_newest(q) ==
    LET at == (q.buffer_write_pos + FRAME_BUFFER_SIZE - 1) % FRAME_BUFFER_SIZE IN
    [slot |-> q.frame_buffer[at + 1],
     queue |-> [frame_buffer |-> q.frame_buffer,
                buffer_read_pos |-> q.buffer_read_pos,
                buffer_write_pos |-> at,
                buffer_count |-> q.buffer_count - 1]]

\* the critical section of buffer_get_frame once there is a frame
buffer_get_frame(q) ==
    [slot |-> q.frame_buffer[q.buffer_read_pos + 1],
     queue |-> [frame_buffer |-> q.frame_buffer,
                buffer_read_pos |-> (q.buffer_read_pos + 1) % FRAME_BUFFER_SIZE,
                buffer_write_pos |-> q.buffer_write_pos,
                buffer_count |-> q.buffer_count - 1]]

\* a decode_and_display_frame_buffered that decodes a DELTA record as RAW when
\* it has no previous frame
decode_and_display_frame_buffered_as_raw(st, commit_hash, previous_frame) ==
    LET rd == git_read_frame_from_commit(st, commit_hash) IN
    IF rd.result # GVC_SUCCESS THEN [result |-> rd.result, raw |-> NoRaw]
    ELSE LET d == deserialize_frame(rd.data) IN
      IF d.result # GVC_SUCCESS THEN [result |-> d.result, raw |-> NoRaw]
      ELSE IF d.frame.header.compression_type = 0
        THEN decompress_frame_raw(d.frame)
      ELSE IF d.frame.header.compression_type = 1
        THEN IF previous_frame = NoRaw
               THEN decompress_frame_raw(d.frame)
               ELSE decompress_frame_delta(d.frame, previous_frame)
      ELSE [result |-> GVC_ERROR_FORMAT, raw |-> NoRaw]

\* decode_and_display_frame_buffered: read the commit's blob, deserialize,
\* decompress by compression_type.  previous_frame = NoRaw is NULL.
decode_and_display_frame_buffered(st, commit_hash, previous_frame) ==
    LET rd == git_read_frame_from_commit(st, commit_hash) IN
    IF rd.result # GVC_SUCCESS THEN [result |-> rd.result, raw |-> NoRaw]
    ELSE LET d == deserialize_frame(rd.data) IN
      IF d.result # GVC_SUCCESS THEN [result |-> d.result, raw |-> NoRaw]
      ELSE IF d.frame.header.compression_type = 0
        THEN decompress_frame_raw(d.frame)
      ELSE IF d.frame.header.compression_type = 1
        THEN IF previous_frame = NoRaw
               THEN [result |-> GVC_ERROR_FORMAT, raw |-> NoRaw]
               ELSE decompress_frame_delta(d.frame, previous_frame)
      ELSE [result |-> GVC_ERROR_FORMAT, raw |-> NoRaw]

\* decoder_thread_data_t
NoDecoderData == [current_commit |-> 0, previous_frame |-> NoRaw, has_previous_frame |-> 0]

(***************************************************************************)
(* Ring of the Metal player (src/src/git_vid_codec.h:145-668).  A ring     *)
(* slot is frame_slot_t: the frame (with the commit it came from, kept for *)
(* the record) and the atomic ready flag.                                  *)
(***************************************************************************)
EmptyRing == [k \in 1..RING_BUFFER_SIZE |-> [frame |-> NoSlot, ready |-> 0]]

\* git_read_blob_libgit2: the frame.bin blob of the commit
git_read_blob_libgit2(st, commit_hash) ==
    IF commit_hash \notin 1..Len(st.commits)
      THEN [result |-> GVC_ERROR_GIT, data |-> << >>]
      ELSE [result |-> GVC_SUCCESS, data |-> st.commits[commit_hash].tree]

\* decompress_frames_batch: both payloads concatenated and decoded as one
\* stream, the output split in two
decompress_frames_batch(frame1, frame2) ==
    LET frame1_size == frame1.header.width * frame1.header.height * frame1.header.channels
        frame2_size == frame2.header.width * frame2.header.height * frame2.header.channels
        combined == compression_decode_buffer(frame1_size + frame2_size,
                                              frame1.data \o frame2.data)
    IN IF Len(combined) = 0
         THEN [result |-> GVC_ERROR_COMPRESSION, raw1 |-> NoRaw, raw2 |-> NoRaw]
         ELSE [result |-> GVC_SUCCESS,
               raw1 |-> [pixels |-> SubSeq(combined, 1, Min2(frame1_size, Len(combined))),
                         width |-> frame1.header.width, height |-> frame1.header.height,
                         channels |-> frame1.header.channels],
               raw2 |-> [pixels |-> SubSeq(combined, frame1_size + 1, Len(combined)),
                         width |-> frame2.header.width, height |-> frame2.header.height,
                         channels |-> frame2.header.channels]]

\* the single-frame path of the decode loop of play_from_repo_metal; a DELTA
\* record met before any frame was decoded is decompressed as RAW
metal_decode_single(st, commit_hash, previous_frame) ==
    LET rd == git_read_blob_libgit2(st, commit_hash) IN
    IF rd.result # GVC_SUCCESS THEN [result |-> rd.result, raw |-> NoRaw]
    ELSE LET d == deserialize_frame(rd.data) IN
      IF d.result # GVC_SUCCESS THEN [result |-> d.result, raw |-> NoRaw]
      ELSE IF d.frame.header.compression_type = 1 /\ previous_frame # NoRaw
        THEN decompress_frame_delta(d.frame, previous_frame)
        ELSE decompress_frame_raw(d.frame)

\* the batch attempt of the decode loop: "batch" with both frames when two
\* consecutive RAW records decode together, "failed" when they were tried
\* and decompress_frames_batch failed, "single" when not applicable
metal_decode_batch(st, hashes, i) ==
    LET r1 == git_read_blob_libgit2(st, hashes[i + 1])
        r2 == git_read_blob_libgit2(st, hashes[i + 2])
        d1 == deserialize_frame(r1.data)
        d2 == deserialize_frame(r2.data)
    IN IF r1.result = GVC_SUCCESS /\ r2.result = GVC_SUCCESS
            /\ d1.result = GVC_SUCCESS /\ d2.result = GVC_SUCCESS
            /\ d1.frame.header.compression_type = 0
            /\ d2.frame.header.compression_type = 0
         THEN LET b == decompress_frames_batch(d1.frame, d2.frame) IN
              IF b.result = GVC_SUCCESS
                THEN [kind |-> "batch", raw1 |-> b.raw1, raw2 |-> b.raw2]
                ELSE [kind |-> "failed", raw1 |-> NoRaw, raw2 |-> NoRaw]
         ELSE [kind |-> "single", raw1 |-> NoRaw, raw2 |-> NoRaw]

(***************************************************************************)
(* State                                                                   *)
(***************************************************************************)
VARIABLES
    \* codec harness: one (previous, current) pair through a codec
    codec_pc, prev_frame, cur_frame, compressed, decoded,
    \* container harness: one record through serialize / deserialize
    cont_pc, rec, wire, tampered, parsed,
    \* encode_video_sequence: loop position, locals, the repository, and the
    \* frames it has committed so far (inputs)
    enc_pc, frame_num, previous_frame, previous_commit_hash, enc_result, store,
    inputs,
    \* encode_video_sequence: the pointer in previous_frame.pixels (0 is NULL,
    \* the buffer of frame k is k + 1), the buffers malloc has returned, and
    \* the pointers free has been called on, in the order of the calls
    previous_pixels, enc_malloced, enc_freed,
    \* play_from_repo: loop position, locals, and the frames it has displayed;
    \* CLOCK_MONOTONIC in nanoseconds, the local frame_start_time, and the
    \* value frame_start_time had when the last iteration started
    play_pc, commits, play_i, play_previous, play_result, shown,
    mono_clock, frame_start_time, last_frame_start,
    \* play_from_stdin and decoder_thread: the globals of player.c, the frame
    \* queue, each thread's position and locals, and the frames displayed so
    \* far with the commit each came from (presented)
    should_exit, frame_count, queue, commit_hashes, decoder_data, dec_pc,
    dec_frame, main_pc, main_frame, main_result, presented,
    \* record of the playback so far: whether display_should_close has
    \* returned true to the presenter, and the frames that failed with the
    \* error each failed with, and the clean-up steps the player has taken
    \* at the end of playback, in the order it took them
    close_requested, errors, shutdown,
    \* play_from_stdin: the number of pixel buffers malloc has handed out and
    \* free has not been called on
    heap_live,
    \* play_from_repo_metal: the frames for which ring_put_frame returned 1,
    \* in the order of the calls
    ring_put,
    \* play_from_repo_metal and its display_loop block: the ring and its
    \* atomics, the semaphore count, each thread's position and locals
    frame_ring, write_index, read_index, frame_count_atomic, frame_semaphore,
    mt_pc, mt_i, mt_previous, mt_pending, mt_advance, put_idx,
    disp_pc, get_idx, disp_frame,
    \* the blob cache of the libgit2 reader: the cache and its write position,
    \* the git_blob objects libgit2 has handed out (a handle is an index, 0 is
    \* NULL), the slots in the order they were written (inserted), the reader
    \* inside git_read_blob_libgit2 and what it last returned, and the
    \* prefetch worker
    blob_cache, cache_write_pos, git_blobs, inserted,
    rd_pc, rd_commit_hash, rd_blob, rd_out,
    prefetch_running, prefetch_queue_pos, pf_pc, pf_oid_str,
    \* the mutexes of the adapter (cache_mutex, repo_mutex, prefetch_mutex)
    \* the decode path holds, and those the prefetch thread holds
    rd_held, pf_held

codecVars == << codec_pc, prev_frame, cur_frame, compressed, decoded >>
contVars == << cont_pc, rec, wire, tampered, parsed >>
encVars == << enc_pc, frame_num, previous_frame, previous_commit_hash, enc_result,
              store, inputs, previous_pixels, enc_malloced, enc_freed >>
playVars == << play_pc, commits, play_i, play_previous, play_result, shown,
               mono_clock, frame_start_time, last_frame_start >>
histVars == << close_requested, errors, shutdown, heap_live, ring_put >>
thrVars == << should_exit, frame_count, queue, commit_hashes, decoder_data, dec_pc,
              dec_frame, main_pc, main_frame, main_result, presented, histVars >>
thrPrivate == << queue, decoder_data, dec_pc, dec_frame, main_pc, main_frame, main_result >>
ringVars == << frame_ring, write_index, read_index, frame_count_atomic >>
prodVars == << mt_pc, mt_i, mt_previous, mt_pending, mt_advance, put_idx >>
dispVars == << disp_pc, get_idx, disp_frame >>
cacheVars == << blob_cache, cache_write_pos, git_blobs, inserted, rd_pc,
                rd_commit_hash, rd_blob, rd_out, prefetch_running,
                prefetch_queue_pos, pf_pc, pf_oid_str, rd_held, pf_held >>
metalVars == << ringVars, frame_semaphore, prodVars, dispVars, cacheVars >>
vars == << codecVars, contVars, encVars, playVars, thrVars, metalVars >>

CodecIdle ==
    /\ codec_pc = "idle" /\ prev_frame = NoRaw /\ cur_frame = NoRaw
    /\ compressed = NoFrame /\ decoded = [result |-> GVC_SUCCESS, raw |-> NoRaw]
ContIdle ==
    /\ cont_pc = "idle" /\ rec = NoFrame /\ wire = << >> /\ tampered = "none"
    /\ parsed = [result |-> GVC_SUCCESS, frame |-> NoFrame]
EncIdle ==
    /\ enc_pc = "idle" /\ frame_num = 0 /\ previous_frame = NoRaw
    /\ previous_commit_hash = 0 /\ enc_result = GVC_SUCCESS
    /\ store = EmptyStore /\ inputs = << >>
    /\ previous_pixels = 0 /\ enc_malloced = {} /\ enc_freed = << >>
PlayIdle ==
    /\ play_pc = "idle" /\ commits = << >> /\ play_i = 0 /\ play_previous = NoRaw
    /\ play_result = GVC_SUCCESS /\ shown = << >>
    /\ mono_clock = 0 /\ frame_start_time = 0 /\ last_frame_start = 0
ThrIdle ==
    /\ should_exit = 0 /\ frame_count = 0 /\ queue = EmptyQueue
    /\ commit_hashes = << >> /\ decoder_data = NoDecoderData
    /\ dec_pc = "idle" /\ dec_frame = NoSlot /\ main_pc = "idle"
    /\ main_frame = NoSlot /\ main_result = GVC_SUCCESS /\ presented = << >>
    /\ close_requested = 0 /\ errors = << >> /\ shutdown = << >>
    /\ heap_live = 0 /\ ring_put = << >>
\* the cache after git_init_libgit2's memset, nothing read, no prefetch thread
CacheIdle ==
    /\ blob_cache = [k \in 1..PREFETCH_CACHE_SIZE |-> [oid_str |-> 0, blob |-> 0, valid |-> 0]]
    /\ cache_write_pos = 0 /\ git_blobs = << >> /\ inserted = << >>
    /\ rd_pc = "idle" /\ rd_commit_hash = 0 /\ rd_blob = 0
    /\ rd_out = [commit |-> 0, result |-> GVC_SUCCESS, data |-> << >>, cached |-> 0]
    /\ prefetch_running = 0 /\ prefetch_queue_pos = 0 /\ pf_pc = "idle"
    /\ pf_oid_str = 0 /\ rd_held = {} /\ pf_held = {}
MetalIdle ==
    /\ frame_ring = EmptyRing /\ write_index = 0 /\ read_index = 0
    /\ frame_count_atomic = 0 /\ frame_semaphore = 0
    /\ mt_pc = "idle" /\ mt_i = 0 /\ mt_previous = NoRaw /\ mt_pending = << >>
    /\ mt_advance = 0 /\ put_idx = 0
    /\ disp_pc = "idle" /\ get_idx = 0 /\ disp_frame = NoSlot
    /\ CacheIdle

(***************************************************************************)
(* Inputs.  The bytes 0, 1, 128, 129 give every boundary difference:       *)
(* 128 - 1 = 127 and 1 - 129 = -128 fit a signed byte, 128 - 0 = 128 and   *)
(* 0 - 129 = -129 do not.                                                  *)
(***************************************************************************)
EdgeBytes == {0, 1, 128, 129}

RECURSIVE Fill(_, _)
Fill(b, n) == IF n <= 0 THEN << >> ELSE << b >> \o Fill(b, n - 1)

\* frames of FRAME_SIZE bytes: first byte a, last byte b, the rest c
PatternFrame(a, b, c) == MakeRaw(<< a >> \o Fill(c, FRAME_SIZE - 2) \o << b >>)

\* frames of FRAME_SIZE bytes a, b, a, b, ...
Alternating(a, b) ==
    MakeRaw(<< >> \o [k \in 1..FRAME_SIZE |-> IF k % 2 = 1 THEN a ELSE b])

CodecFrames ==
    { PatternFrame(a, b, c) : a \in EdgeBytes, b \in EdgeBytes, c \in {0, 1} }
      \cup { Alternating(0, 1), Alternating(1, 0) }

\* a frame of 8 x 8 x 3 = 192 bytes, every byte 0x80
S2Frame == [pixels |-> [k \in 1..192 |-> 128], width |-> 8, height |-> 8, channels |-> 3]

\* what an uninitialised frame_t on the stack may hold in the fields the
\* compress functions leave unwritten
StackGarbage ==
    { MakeFrame(MakeHeader(0, 0, 0, 0, 0, << 0, 0, 0, 0 >>, 0, rsv), << >>) :
        rsv \in { << 0, 0, 0 >>, << 165, 0, 90 >> } }

\* cur[k] - prev[k] fits a signed byte at every position
DeltasInRange(cur, prev) ==
    \A k \in 1..Len(cur.pixels) :
        /\ cur.pixels[k] - prev.pixels[k] >= -128
        /\ cur.pixels[k] - prev.pixels[k] <= 127

(***************************************************************************)
(* Codec harness: compress one pair, then decompress the record            *)
(***************************************************************************)
InitCodec ==
    /\ codec_pc = "input"
    /\ prev_frame \in CodecFrames \cup {S2Frame}
    /\ cur_frame \in CodecFrames \cup {S2Frame}
    /\ compressed = NoFrame
    /\ decoded = [result |-> GVC_SUCCESS, raw |-> NoRaw]
    /\ ContIdle /\ EncIdle /\ PlayIdle /\ ThrIdle /\ MetalIdle

\* compress_frame_delta on the pair.  When the command stream is longer than
\* the pixel_count * 2 bytes malloc'ed for delta_buffer, the function has
\* written past the end of a heap block: the process may be killed, or the
\* bytes may survive next to the block and be compressed as written.
CompressDelta ==
    /\ codec_pc = "input"
    /\ \E garbage \in StackGarbage :
         LET r == compress_frame_delta(cur_frame, prev_frame, garbage) IN
         /\ r.result = GVC_SUCCESS
         /\ \/ /\ compressed' = r.frame
               /\ codec_pc' = "compressed"
            \/ /\ DeltaBufferOverflows(cur_frame, prev_frame)
               /\ compressed' = NoFrame
               /\ codec_pc' = "crashed"
    /\ UNCHANGED << prev_frame, cur_frame, decoded, contVars, encVars, playVars, thrVars, metalVars >>

CompressRaw ==
    /\ codec_pc = "input"
    /\ \E garbage \in StackGarbage :
         LET r == compress_frame_raw(cur_frame, garbage) IN
         /\ r.result = GVC_SUCCESS
         /\ compressed' = r.frame
    /\ codec_pc' = "compressed"
    /\ UNCHANGED << prev_frame, cur_frame, decoded, contVars, encVars, playVars, thrVars, metalVars >>

DecompressDelta ==
    /\ codec_pc = "compressed"
    /\ compressed.header.compression_type = 1
    /\ decoded' = decompress_frame_delta(compressed, prev_frame)
    /\ codec_pc' = "decoded"
    /\ UNCHANGED << prev_frame, cur_frame, compressed, contVars, encVars, playVars, thrVars, metalVars >>

DecompressRaw ==
    /\ codec_pc = "compressed"
    /\ compressed.header.compression_type = 0
    /\ decoded' = decompress_frame_raw(compressed)
    /\ codec_pc' = "decoded"
    /\ UNCHANGED << prev_frame, cur_frame, compressed, contVars, encVars, playVars, thrVars, metalVars >>

\* the DELTA record reaches the decoder with a command stream that was cut
\* short before it was entropy-coded: the first n bytes of the commands,
\* coded as a well-formed stream, compressed_size and checksum to match
TruncateCommands ==
    /\ codec_pc = "compressed"
    /\ compressed.header.compression_type = 1
    /\ LET pixel_count == compressed.header.width * compressed.header.height
                             * compressed.header.channels
           delta_buffer == compression_decode_buffer(pixel_count * 2, compressed.data)
       IN \E n \in 1..(Len(delta_buffer) - 1) :
            \E data \in {compression_encode_buffer(SubSeq(delta_buffer, 1, n))} :
              compressed' = [header |-> [compressed.header EXCEPT
                                           !.compressed_size = Len(data),
                                           !.checksum = calculate_checksum(data)],
                             data |-> data, data_size |-> Len(data)]
    /\ codec_pc' = "truncated"
    /\ UNCHANGED << prev_frame, cur_frame, decoded, contVars, encVars, playVars, thrVars, metalVars >>

\* decompress_frame_delta on the record with the shortened command stream
DecompressTruncated ==
    /\ codec_pc = "truncated"
    /\ decoded' = decompress_frame_delta(compressed, prev_frame)
    /\ codec_pc' = "decoded_truncated"
    /\ UNCHANGED << prev_frame, cur_frame, compressed, contVars, encVars, playVars, thrVars, metalVars >>

\* decompress_frame_delta on the record and a predecessor of another size;
\* only predecessors that hold at least pixel_count bytes are drawn
DecompressMismatched ==
    /\ codec_pc = "compressed"
    /\ compressed.header.compression_type = 1
    /\ \E previous \in CodecFrames \cup {S2Frame} :
         /\ << previous.width, previous.height, previous.channels >>
              # << compressed.header.width, compressed.header.height,
                   compressed.header.channels >>
         /\ Len(previous.pixels) >= compressed.header.width * compressed.header.height
                                      * compressed.header.channels
         /\ decoded' = decompress_frame_delta(compressed, previous)
    /\ codec_pc' = "decoded_mismatched"
    /\ UNCHANGED << prev_frame, cur_frame, compressed, contVars, encVars, playVars, thrVars, metalVars >>

\* the bytes a forged command stream may hold: the two commands (as a run
\* length, no run and a run of one), an unknown command (a run of two), and
\* 0xFF (an unknown command, the longest run, the delta -1)
ForgedBytes == {0, 1, 2, 255}

\* command streams of up to MaxCommands bytes of any content
ForgedStreams == UNION { [1..n -> ForgedBytes] : n \in 0..MaxCommands }

\* a DELTA record that did not come from compress_frame_delta reaches the
\* decoder: its dimensions are those of the predecessor, its data is a
\* well-formed entropy-coded stream of arbitrary commands.  The current frame
\* plays no part in it, so the record is forged only where the current frame
\* equals the predecessor
ForgeCommands ==
    /\ codec_pc = "input"
    /\ cur_frame = prev_frame
    /\ \E commands \in ForgedStreams :
         \E data \in {compression_encode_buffer(commands)} :
           compressed' = MakeFrame(MakeHeader(0, prev_frame.width, prev_frame.height,
                                              prev_frame.channels, Len(data),
                                              calculate_checksum(data), 1,
                                              << 0, 0, 0 >>), data)
    /\ codec_pc' = "forged"
    /\ UNCHANGED << prev_frame, cur_frame, decoded, contVars, encVars, playVars, thrVars, metalVars >>

\* decompress_frame_delta on the record with the arbitrary command stream
DecompressForged ==
    /\ codec_pc = "forged"
    /\ decoded' = decompress_frame_delta(compressed, prev_frame)
    /\ codec_pc' = "decoded_forged"
    /\ UNCHANGED << prev_frame, cur_frame, compressed, contVars, encVars, playVars, thrVars, metalVars >>

NextCodec ==
    \/ CompressDelta \/ CompressRaw \/ DecompressDelta \/ DecompressRaw
    \/ TruncateCommands \/ DecompressTruncated \/ DecompressMismatched
    \/ ForgeCommands \/ DecompressForged

SpecCodec == InitCodec /\ [][NextCodec]_vars

\* C3: DELTA codec identity under no clamping.  Whenever a pair whose byte-wise
\* differences all lie in [-128, 127] has been through compress_frame_delta and
\* decompress_frame_delta (against the same predecessor), the decoder succeeded
\* and its pixels equal the current frame's.
C3_DeltaIdentity ==
    (codec_pc = "decoded" /\ compressed.header.compression_type = 1
       /\ DeltasInRange(cur_frame, prev_frame))
    => (decoded.result = GVC_SUCCESS /\ decoded.raw.pixels = cur_frame.pixels)

(***************************************************************************)
(* Container harness: serialize one record, optionally flip one payload    *)
(* bit of the serialized bytes, then deserialize                           *)
(***************************************************************************)
ContPayloads == { << >>, << 0 >>, << 1, 2 >>, << 255, 0, 128 >> }

\* a checksum field that is not the payload's CRC-32
WrongChecksum(data) == Xor32(calculate_checksum(data), << 1, 0, 0, 0 >>)

ContRecord(fn, w, ctype, rsv, data, good) ==
    MakeFrame(MakeHeader(fn, w, FRAME_HEIGHT, FRAME_CHANNELS, Len(data),
                         IF good THEN calculate_checksum(data) ELSE WrongChecksum(data),
                         ctype, rsv), data)

ContRecords ==
    { ContRecord(fn, w, ctype, rsv, data, good) :
        fn \in {0, 7}, w \in {FRAME_WIDTH, FRAME_WIDTH + 1},
        ctype \in {0, 1, 2, 255},
        rsv \in { << 0, 0, 0 >>, << 0, 0, 1 >>, << 165, 0, 90 >> },
        data \in ContPayloads, good \in BOOLEAN }

\* target dimensions, compressed_size the payload length, checksum its CRC-32
ValidRecord(r) ==
    /\ r.header.width = FRAME_WIDTH /\ r.header.height = FRAME_HEIGHT
    /\ r.header.channels = FRAME_CHANNELS
    /\ r.header.compressed_size = Len(r.data)
    /\ r.header.checksum = calculate_checksum(r.data)

InitContainer ==
    /\ cont_pc = "input"
    /\ rec \in ContRecords
    /\ wire = << >>
    /\ tampered = "none"
    /\ parsed = [result |-> GVC_SUCCESS, frame |-> NoFrame]
    /\ CodecIdle /\ EncIdle /\ PlayIdle /\ ThrIdle /\ MetalIdle

Serialize ==
    /\ cont_pc = "input"
    /\ wire' = serialize_frame(rec)
    /\ cont_pc' = "wire"
    /\ UNCHANGED << rec, tampered, parsed, codecVars, encVars, playVars, thrVars, metalVars >>

\* one bit of one payload byte of the stored blob changes; the header stays
FlipPayloadBit ==
    /\ cont_pc = "wire"
    /\ tampered = "none"
    /\ \E at \in HEADER_BYTES + 1 .. Len(wire), k \in 0..7 :
         wire' = [wire EXCEPT ![at] = FlipBit(wire[at], k)]
    /\ tampered' = "payload"
    /\ UNCHANGED << cont_pc, rec, parsed, codecVars, encVars, playVars, thrVars, metalVars >>

\* the stored blob is cut short: only a proper prefix of it is left
TruncateWire ==
    /\ cont_pc = "wire"
    /\ tampered = "none"
    /\ \E n \in 0 .. Len(wire) - 1 : wire' = SubSeq(wire, 1, n)
    /\ tampered' = "truncated"
    /\ UNCHANGED << cont_pc, rec, parsed, codecVars, encVars, playVars, thrVars, metalVars >>

Deserialize ==
    /\ cont_pc = "wire"
    /\ parsed' = deserialize_frame(wire)
    /\ cont_pc' = "parsed"
    /\ UNCHANGED << rec, wire, tampered, codecVars, encVars, playVars, thrVars, metalVars >>

NextContainer == Serialize \/ FlipPayloadBit \/ TruncateWire \/ Deserialize

SpecContainer == InitContainer /\ [][NextContainer]_vars

\* C4: container round-trip.  Whenever a valid record (target dimensions,
\* compressed_size equal to the payload length, checksum the CRC-32 of the
\* payload) has been serialized and the untouched bytes deserialized,
\* deserialize_frame succeeded and returned the same header fields and the
\* same payload bytes.
C4_ContainerRoundTrip ==
    (cont_pc = "parsed" /\ tampered = "none" /\ ValidRecord(rec))
    => /\ parsed.result = GVC_SUCCESS
       /\ parsed.frame.header = rec.header
       /\ parsed.frame.data = rec.data
       /\ parsed.frame.data_size = rec.data_size

C4_Witness ==
    /\ cont_pc = "parsed" /\ tampered = "none" /\ ValidRecord(rec)
    /\ Len(rec.data) = 3 /\ rec.header.frame_number = 7
    /\ parsed.result = GVC_SUCCESS /\ parsed.frame.data = rec.data

\* C5: CRC verification.  Whenever one bit of the payload of a serialized valid
\* record was changed (header untouched) before deserialize_frame ran,
\* deserialize_frame returned GVC_ERROR_FORMAT and no record.
C5_PayloadBitFlipRejected ==
    (cont_pc = "parsed" /\ tampered = "payload" /\ ValidRecord(rec))
    => (parsed.result = GVC_ERROR_FORMAT /\ parsed.frame = NoFrame)

C5_Witness ==
    /\ cont_pc = "parsed" /\ tampered = "payload" /\ ValidRecord(rec)
    /\ Len(rec.data) = 3 /\ wire[HEADER_BYTES + 3] # rec.data[3]
    /\ parsed.result = GVC_ERROR_FORMAT

\* C6: reserved bytes.  Whenever deserialize_frame has run on the untouched
\* bytes of a record that is valid except that one of its three reserved
\* bytes is non-zero, it returned GVC_ERROR_FORMAT.
C6_ReservedRejected ==
    (cont_pc = "parsed" /\ tampered = "none" /\ ValidRecord(rec)
       /\ rec.header.reserved # << 0, 0, 0 >>)
    => parsed.result = GVC_ERROR_FORMAT

\* C7: compression type validation.  Whenever deserialize_frame has run on the
\* untouched bytes of a record that is valid except that its compression_type
\* is neither 0 nor 1, it returned GVC_ERROR_FORMAT.
C7_CompressionTypeRejected ==
    (cont_pc = "parsed" /\ tampered = "none" /\ ValidRecord(rec)
       /\ rec.header.compression_type \notin {0, 1})
    => parsed.result = GVC_ERROR_FORMAT

(***************************************************************************)
(* Encoder and sequential playback: encode_video_sequence writes up to     *)
(* num_frames frames into a fresh repository, then play_from_repo walks    *)
(* the chain and decodes it                                                *)
(***************************************************************************)
\* the frames the input files may hold
EncFrames ==
    { PatternFrame(0, 0, 0), PatternFrame(1, 1, 1), PatternFrame(128, 129, 128),
      Alternating(1, 0) }

\* what the stack slot of a local pointer may hold before it is assigned:
\* NULL, or a value malloc never returned
StackPointers == {0, -1}

\* free_raw_frame: free(frame->pixels) unless it is NULL; gives the calls of
\* free so far.  The caller's frame->pixels is NULL afterwards
free_raw_frame(pixels, freed) ==
    IF pixels # 0 THEN Append(freed, pixels) ELSE freed

\* raw_frame_t current_frame, previous_frame are declared without initializer
InitEnc ==
    /\ enc_pc = "loop"
    /\ frame_num = 0
    /\ previous_frame = NoRaw
    /\ previous_commit_hash = 0
    /\ enc_result = GVC_SUCCESS
    /\ store = EmptyStore
    /\ inputs = << >>
    /\ previous_pixels \in StackPointers
    /\ enc_malloced = {}
    /\ enc_freed = << >>
    /\ PlayIdle /\ CodecIdle /\ ContIdle /\ ThrIdle /\ MetalIdle

\* one iteration of the for loop of encode_video_sequence whose frame was read
\* into a buffer of its own.  A delta_buffer overrun inside
\* compress_frame_delta may instead kill the process before anything is
\* written.  The iteration that ends the loop is followed by the clean-up of
\* the last frame, free_raw_frame(&previous_frame), which runs whenever
\* num_frames > 0
EncodeFrame ==
    /\ enc_pc = "loop"
    /\ frame_num < num_frames
    /\ enc_malloced' = enc_malloced \cup {frame_num + 1}
    /\ \E current_frame \in EncFrames, garbage \in StackGarbage, fail \in GitFailures :
         LET parent_hash == IF frame_num = 0 THEN 0 ELSE previous_commit_hash
             prev == IF frame_num = 0 THEN NoRaw ELSE previous_frame
             r == encode_frame_to_commit(current_frame, prev, frame_num, parent_hash,
                                         0, store, garbage, fail)
         IN \/ /\ r.result # GVC_SUCCESS
               /\ enc_pc' = "done"
               /\ enc_result' = r.result
               /\ store' = r.store
               /\ enc_freed' = free_raw_frame(previous_pixels,
                                     free_raw_frame(frame_num + 1, enc_freed))
               /\ previous_pixels' = 0
               /\ UNCHANGED << frame_num, previous_frame, previous_commit_hash, inputs >>
            \/ /\ r.result = GVC_SUCCESS
               /\ store' = r.store
               /\ inputs' = Append(inputs, current_frame)
               /\ previous_frame' = current_frame
               /\ previous_commit_hash' = r.hash
               /\ frame_num' = frame_num + 1
               /\ enc_result' = GVC_SUCCESS
               /\ enc_pc' = IF frame_num + 1 < num_frames THEN "loop" ELSE "done"
               /\ LET released == IF frame_num > 0
                                    THEN free_raw_frame(previous_pixels, enc_freed)
                                    ELSE enc_freed
                  IN IF frame_num + 1 < num_frames
                       THEN /\ enc_freed' = released
                            /\ previous_pixels' = frame_num + 1
                       ELSE /\ enc_freed' = free_raw_frame(frame_num + 1, released)
                            /\ previous_pixels' = 0
            \/ /\ prev # NoRaw
               /\ DeltaBufferOverflows(current_frame, prev)
               /\ enc_pc' = "crashed"
               /\ UNCHANGED << frame_num, previous_frame, previous_commit_hash,
                               enc_result, store, inputs, previous_pixels, enc_freed >>
    /\ UNCHANGED << playVars, codecVars, contVars, thrVars, metalVars >>

\* read_raw_frame fails (missing file, wrong size, short read): the loop
\* breaks and the clean-up of the last frame runs.  After a short read
\* read_raw_frame has released the buffer it had allocated
ReadFrameFails ==
    /\ enc_pc = "loop"
    /\ frame_num < num_frames
    /\ enc_pc' = "done"
    /\ \E short_read \in BOOLEAN :
         /\ enc_result' \in IF short_read THEN {GVC_ERROR_IO}
                            ELSE {GVC_ERROR_IO, GVC_ERROR_FORMAT}
         /\ enc_malloced' = IF short_read THEN enc_malloced \cup {frame_num + 1}
                            ELSE enc_malloced
         /\ enc_freed' = free_raw_frame(previous_pixels,
                             IF short_read THEN Append(enc_freed, frame_num + 1)
                             ELSE enc_freed)
    /\ previous_pixels' = 0
    /\ UNCHANGED << frame_num, previous_frame, previous_commit_hash, store, inputs,
                    playVars, codecVars, contVars, thrVars, metalVars >>

\* time a decode_and_display_frame call may take: a quarter of the frame
\* interval or two intervals
DecodeNs == {FRAME_TIME_NS \div 4, 2 * FRAME_TIME_NS}

\* time by which a completed nanosleep may exceed the time requested
OversleepNs == {0, FRAME_TIME_NS}

\* a pacing step that never sleeps
FrameSleepNone(frame_duration) == 0

\* the pacing step of play_from_repo: the time it asks sleep_ns for after a
\* frame that took frame_duration, 0 when it does not call sleep_ns
FrameSleep(frame_duration) ==
    IF frame_duration < FRAME_TIME_NS THEN FRAME_TIME_NS - frame_duration ELSE 0

\* sleep_ns: the time that passes in nanosleep(&ts, NULL).  A completed sleep
\* lasts at least the time requested; a sleep interrupted by a handled signal
\* returns early (here: half way) and the return value is not looked at
sleep_ns(nanoseconds, oversleep, interrupted) ==
    IF nanoseconds = 0 THEN 0
    ELSE IF interrupted THEN nanoseconds \div 2
    ELSE nanoseconds + oversleep

\* play_from_repo up to its loop: walk the chain, frame_start_time =
\* get_time_ns()
PlayStart ==
    /\ play_pc = "idle"
    /\ enc_pc \in {"done", "crashed"}
    /\ LET chain == git_get_commit_chain(store, PLAY_MAX_COMMITS) IN
         /\ commits' = chain
         /\ IF Len(chain) <= 0
              THEN play_pc' = "done" /\ play_result' = GVC_ERROR_GIT
              ELSE play_pc' = "loop" /\ play_result' = GVC_SUCCESS
    /\ frame_start_time' = mono_clock
    /\ UNCHANGED << play_i, play_previous, shown, mono_clock, last_frame_start, encVars,
                    codecVars, contVars, thrVars, metalVars >>

\* one iteration of the for loop of play_from_repo, entered while should_exit
\* is 0; a frame that fails to decode ends the loop.  After a frame that was
\* displayed the loop sleeps for what is left of the frame interval and reads
\* the clock into frame_start_time; the only handled signals are SIGINT and
\* SIGTERM, whose handler sets should_exit
PlayFrame ==
    /\ play_pc = "loop"
    /\ should_exit = 0
    /\ play_i < Len(commits)
    /\ last_frame_start' = frame_start_time
    /\ \E r \in {decode_and_display_frame(store, commits[play_i + 1], play_previous)},
          decode_ns \in DecodeNs, oversleep \in OversleepNs, interrupted \in BOOLEAN :
         IF r.result # GVC_SUCCESS
           THEN /\ play_pc' = "done"
                /\ play_result' = r.result
                /\ mono_clock' = mono_clock + decode_ns
                /\ UNCHANGED << play_i, play_previous, shown, frame_start_time,
                                should_exit >>
           ELSE \E frame_end_time \in {mono_clock + decode_ns} :
                \E slept \in {sleep_ns(FrameSleep(frame_end_time - frame_start_time),
                                        oversleep, interrupted)} :
                /\ shown' = Append(shown, r.raw)
                /\ play_previous' = r.raw
                /\ play_i' = play_i + 1
                /\ play_pc' = IF play_i + 1 < Len(commits) THEN "loop" ELSE "done"
                /\ mono_clock' = frame_end_time + slept
                /\ frame_start_time' = frame_end_time + slept
                /\ should_exit' = IF interrupted /\ slept > 0 THEN 1 ELSE should_exit
                /\ UNCHANGED play_result
    /\ UNCHANGED << commits, encVars, codecVars, contVars, metalVars >>
    /\ UNCHANGED << frame_count, queue, commit_hashes, decoder_data, dec_pc, dec_frame,
                    main_pc, main_frame, main_result, presented, histVars >>

\* should_exit is set or the window is closed: the loop condition fails
PlayStop ==
    /\ play_pc = "loop"
    /\ play_pc' = "done"
    /\ UNCHANGED << commits, play_i, play_previous, play_result, shown, mono_clock,
                    frame_start_time, last_frame_start,
                    encVars, codecVars, contVars, thrVars, metalVars >>

\* the encoder alone
NextEncoder == EncodeFrame \/ ReadFrameFails

SpecEncoder == InitEnc /\ [][NextEncoder]_vars

\* the encoder, then playback of what it wrote
NextChain == EncodeFrame \/ ReadFrameFails \/ PlayStart \/ PlayFrame \/ PlayStop

SpecChain == InitEnc /\ [][NextChain]_vars

\* the record stored in the commit at C index i of the chain walked from HEAD
ChainOf(st) == git_get_commit_chain(st, PLAY_MAX_COMMITS)
RecordAt(st, i) == deserialize_frame(st.commits[ChainOf(st)[i + 1]].tree).frame

\* C1: drift-free chain.  Every frame play_from_repo has decoded from the chain
\* the encoder produced is byte-for-byte the frame the encoder was given at
\* that index, and no frame of the chain failed to decode.
C1_DriftFree ==
    /\ \A i \in 1..Len(shown) : shown[i].pixels = inputs[i].pixels
    /\ (play_pc = "done" /\ commits # << >>) => play_result = GVC_SUCCESS

\* C2: DELTA fallback.  For every committed frame i > 0 that has a byte
\* differing from its predecessor's byte by a value outside [-128, 127], the
\* record stored for frame i is RAW and decompress_frame_raw of it gives the
\* frame back exactly.
C2_DeltaFallback ==
    \A i \in 1..(Len(inputs) - 1) :
        ~DeltasInRange(inputs[i + 1], inputs[i])
        => /\ RecordAt(store, i).header.compression_type = 0
           /\ decompress_frame_raw(RecordAt(store, i)).raw.pixels = inputs[i + 1].pixels

\* C8: first-frame mode.  In the chain walked from HEAD the record at index 0
\* is RAW, and every DELTA record sits at an index > 0 in a commit that has a
\* parent.
C8_FirstFrameRaw ==
    LET chain == ChainOf(store) IN
    chain # << >>
    => /\ RecordAt(store, 0).header.compression_type = 0
       /\ \A i \in 0..(Len(chain) - 1) :
            RecordAt(store, i).header.compression_type = 1
            => (i > 0 /\ store.commits[chain[i + 1]].parent # 0)

C8_Witness ==
    /\ enc_pc = "done" /\ Len(ChainOf(store)) = num_frames
    /\ RecordAt(store, 0).header.compression_type = 0
    /\ RecordAt(store, 1).header.compression_type = 1

\* C9: chain ordering.  When the encoder has committed N frames, the walk from
\* HEAD oldest-first returns exactly N commit ids, commit 0 has no parent,
\* commit i has commit i-1 as its parent, and the record stored in commit i
\* has frame_number i.
C9_ChainOrdering ==
    LET chain == ChainOf(store) IN
    /\ Len(chain) = Len(inputs)
    /\ \A i \in 0..(Len(inputs) - 1) :
         /\ store.commits[chain[i + 1]].parent = (IF i = 0 THEN 0 ELSE chain[i])
         /\ RecordAt(store, i).header.frame_number = i

C9_Witness ==
    /\ enc_pc = "done" /\ enc_result = GVC_SUCCESS /\ Len(inputs) = num_frames
    /\ Len(ChainOf(store)) = num_frames
    /\ RecordAt(store, num_frames - 1).header.frame_number = num_frames - 1
    /\ store.commits[store.head].parent # 0

(***************************************************************************)
(* Threaded playback: play_from_stdin (main thread, the presenter) and     *)
(* decoder_thread share the frame queue under buffer_mutex.  A step is one *)
(* critical section or one stretch of thread-local work.                   *)
(***************************************************************************)
\* the clip behind the commit hashes read from stdin: num_commits frames
\* encoded into a fresh repository
ClipFrame(k) == MakeRaw(Fill(k, FRAME_SIZE))

RECURSIVE BuildClip(_, _, _)
BuildClip(st, k, parent) ==
    IF k >= num_commits THEN st
    ELSE LET r == encode_frame_to_commit(ClipFrame(k),
                      IF k = 0 THEN NoRaw ELSE ClipFrame(k - 1), k, parent, 0, st,
                      MakeFrame(MakeHeader(0, 0, 0, 0, 0, << 0, 0, 0, 0 >>, 0,
                                           << 0, 0, 0 >>), << >>),
                      "none")
         IN BuildClip(r.store, k + 1, r.hash)

\* the blob of commit id damaged: one payload bit flipped ("crc") or the
\* compression_type byte set to 2 ("type")
DamageCommit(st, id, kind) ==
    LET blob == st.commits[id].tree
        at == IF kind = "crc" THEN Len(blob) ELSE 29
        bad == IF kind = "crc" THEN FlipBit(blob[at], 0) ELSE 2
    IN [st EXCEPT !.commits[id].tree = [blob EXCEPT ![at] = bad]]

PlayStores ==
    { BuildClip(EmptyStore, 0, 0) }
      \cup { DamageCommit(BuildClip(EmptyStore, 0, 0), id, kind) :
               id \in 1..num_commits, kind \in {"crc", "type"} }

InitStdin ==
    /\ store \in PlayStores
    /\ commit_hashes = git_get_commit_chain(store, PLAY_MAX_COMMITS)
    /\ enc_pc = "idle" /\ frame_num = 0 /\ previous_frame = NoRaw
    /\ previous_commit_hash = 0 /\ enc_result = GVC_SUCCESS /\ inputs = << >>
    /\ previous_pixels = 0 /\ enc_malloced = {} /\ enc_freed = << >>
    /\ should_exit = 0
    /\ frame_count = 0
    /\ queue = EmptyQueue
    /\ decoder_data = NoDecoderData
    /\ dec_pc = "loop"
    /\ dec_frame = NoSlot
    /\ main_pc = "loop"
    /\ main_frame = NoSlot
    /\ main_result = GVC_SUCCESS
    /\ presented = << >>
    /\ close_requested = 0
    /\ errors = << >>
    /\ shutdown = << >> /\ heap_live = 0 /\ ring_put = << >>
    /\ PlayIdle /\ CodecIdle /\ ContIdle /\ MetalIdle

thrOther == << encVars, playVars, codecVars, contVars, commit_hashes, metalVars >>

\* decoder_thread: the loop test and decode_and_display_frame_buffered; a
\* frame that fails to decode is skipped
DecoderDecode ==
    /\ dec_pc = "loop"
    /\ IF decoder_data.current_commit < Len(commit_hashes) /\ should_exit = 0
         THEN LET at == decoder_data.current_commit
                  prev == IF decoder_data.has_previous_frame = 1
                            THEN decoder_data.previous_frame ELSE NoRaw
              IN \E r \in {decode_and_display_frame_buffered(store, commit_hashes[at + 1],
                                                             prev)} :
                 IF r.result = GVC_SUCCESS
                   THEN /\ dec_frame' = [frame |-> r.raw, commit |-> at]
                        /\ dec_pc' = "put"
                        \* current_frame.pixels and buffer_frame.pixels
                        /\ heap_live' = heap_live + 2
                        /\ UNCHANGED << decoder_data, errors >>
                   ELSE /\ decoder_data' = [decoder_data EXCEPT !.current_commit = at + 1]
                        /\ errors' = Append(errors, [commit |-> at, result |-> r.result])
                        /\ UNCHANGED << dec_frame, dec_pc, heap_live >>
         ELSE /\ dec_pc' = "done"
              /\ UNCHANGED << dec_frame, decoder_data, errors, heap_live >>
    /\ UNCHANGED << should_exit, frame_count, queue, main_pc, main_frame, main_result,
                    presented, close_requested, shutdown, ring_put, thrOther >>

\* decoder_thread inside buffer_put_frame: wait on buffer_not_full while the
\* queue is full, else store the frame (unless should_exit) and signal
\* buffer_not_empty; then the thread moves on to the next commit
DecoderPut ==
    /\ dec_pc = "put"
    /\ IF queue.buffer_count >= FRAME_BUFFER_SIZE /\ should_exit = 0
         THEN /\ dec_pc' = "wait_not_full"
              /\ UNCHANGED << queue, decoder_data, dec_frame, main_pc, heap_live, ring_put >>
         ELSE /\ IF should_exit = 0
                   THEN /\ queue' = buffer_put_frame(queue, dec_frame)
                        /\ main_pc' = IF main_pc = "wait_not_empty" THEN "get" ELSE main_pc
                   ELSE UNCHANGED << queue, main_pc >>
              \* the slot's own malloc in buffer_put_frame, then the free of
              \* the previous frame the new one replaces
              /\ heap_live' = heap_live + (IF should_exit = 0 THEN 1 ELSE 0)
                                 - (IF decoder_data.has_previous_frame = 1 THEN 1 ELSE 0)
              /\ decoder_data' = [current_commit |-> decoder_data.current_commit + 1,
                                  previous_frame |-> dec_frame.frame,
                                  has_previous_frame |-> 1]
              /\ dec_frame' = NoSlot
              /\ dec_pc' = "loop"
    /\ UNCHANGED << should_exit, frame_count, main_frame, main_result, presented, thrOther >>
    /\ UNCHANGED << close_requested, errors, shutdown, ring_put >>

\* play_from_stdin: the test of the display loop
MainLoop ==
    /\ main_pc = "loop"
    /\ IF should_exit # 0
         THEN main_pc' = "stop" /\ UNCHANGED close_requested
         ELSE \E display_should_close \in BOOLEAN :
                IF display_should_close
                  THEN main_pc' = "stop" /\ close_requested' = 1
                  ELSE /\ main_pc' = IF frame_count < Len(commit_hashes)
                                       THEN "get" ELSE "stop"
                       /\ UNCHANGED close_requested
    /\ UNCHANGED << should_exit, frame_count, queue, decoder_data, dec_pc, dec_frame,
                    main_frame, main_result, presented, errors, shutdown, heap_live, ring_put,
                    thrOther >>

\* play_from_stdin inside buffer_get_frame: wait on buffer_not_empty while the
\* queue is empty, give up when should_exit is set, else take the frame at
\* buffer_read_pos and signal buffer_not_full
MainGet ==
    /\ main_pc = "get"
    /\ IF queue.buffer_count = 0 /\ should_exit = 0
         THEN /\ main_pc' = "wait_not_empty"
              /\ UNCHANGED << queue, main_frame, dec_pc >>
         ELSE IF should_exit # 0
           THEN /\ main_pc' = "stop"
                /\ UNCHANGED << queue, main_frame, dec_pc >>
           ELSE LET g == buffer_get_frame(queue) IN
                /\ main_frame' = g.slot
                /\ queue' = g.queue
                /\ dec_pc' = IF dec_pc = "wait_not_full" THEN "put" ELSE dec_pc
                /\ main_pc' = "display"
    /\ UNCHANGED << should_exit, frame_count, decoder_data, dec_frame, main_result,
                    presented, thrOther >>
    /\ UNCHANGED histVars

\* play_from_stdin: display_frame and the rest of the loop body
MainDisplay ==
    /\ main_pc = "display"
    /\ \E result \in {GVC_SUCCESS, GVC_ERROR_DISPLAY} :
         /\ main_result' = result
         /\ IF result = GVC_SUCCESS
              THEN /\ presented' = Append(presented, main_frame)
                   /\ frame_count' = frame_count + 1
                   /\ main_pc' = "loop"
              ELSE /\ main_pc' = "stop"
                   /\ UNCHANGED << presented, frame_count >>
         /\ errors' = IF result = GVC_SUCCESS THEN errors
                       ELSE Append(errors, [commit |-> main_frame.commit, result |-> result])
    /\ main_frame' = NoSlot
    \* free(frame.pixels) on either path
    /\ heap_live' = heap_live - 1
    /\ UNCHANGED << should_exit, queue, decoder_data, dec_pc, dec_frame, close_requested,
                    shutdown, ring_put,
                    thrOther >>

\* play_from_stdin after the loop: should_exit = 1, broadcast buffer_not_full
MainStop ==
    /\ main_pc = "stop"
    /\ should_exit' = 1
    /\ dec_pc' = IF dec_pc = "wait_not_full" THEN "put" ELSE dec_pc
    /\ main_pc' = "join"
    /\ shutdown' = shutdown \o << "should_exit", "wake" >>
    /\ UNCHANGED << frame_count, queue, decoder_data, dec_frame, main_frame,
                    main_result, presented, thrOther >>
    /\ UNCHANGED << close_requested, errors, heap_live, ring_put >>

\* pthread_join returns once decoder_thread has returned; the clean-up loop's
\* buffer_get_frame then fails at once because should_exit is set; the commit
\* hashes and the decoder's previous frame are freed, display_cleanup is
\* called and play_from_stdin returns GVC_SUCCESS
MainJoin ==
    /\ main_pc = "join"
    /\ dec_pc = "done"
    /\ main_pc' = "done"
    /\ main_result' = GVC_SUCCESS
    /\ shutdown' = shutdown \o << "join_decoder", "release_queue", "display_cleanup" >>
    /\ heap_live' = heap_live - (IF decoder_data.has_previous_frame = 1 THEN 1 ELSE 0)
    /\ UNCHANGED << should_exit, frame_count, queue, decoder_data, dec_pc, dec_frame,
                    main_frame, presented, thrOther >>
    /\ UNCHANGED << close_requested, errors, ring_put >>

(***************************************************************************)
(* Metal playback: play_from_repo_metal decodes on the main thread and     *)
(* puts frames into the ring; the display_loop block takes them out.  A    *)
(* step is one atomic operation on the ring or one stretch of thread-local *)
(* work.  atomic_compare_exchange_weak may fail spuriously.                *)
(***************************************************************************)
\* a clip whose records are all RAW, as another producer may write it
RECURSIVE BuildRawClip(_, _, _)
BuildRawClip(st, k, parent) ==
    IF k >= num_commits THEN st
    ELSE LET r == encode_frame_to_commit(ClipFrame(k), NoRaw, k, parent, 0, st,
                      MakeFrame(MakeHeader(0, 0, 0, 0, 0, << 0, 0, 0, 0 >>, 0,
                                           << 0, 0, 0 >>), << >>),
                      "none")
         IN BuildRawClip(r.store, k + 1, r.hash)

MetalStores == PlayStores \cup { BuildRawClip(EmptyStore, 0, 0) }

InitMetal ==
    /\ store \in MetalStores
    /\ commit_hashes = git_get_commit_chain(store, PLAY_MAX_COMMITS)
    /\ enc_pc = "idle" /\ frame_num = 0 /\ previous_frame = NoRaw
    /\ previous_commit_hash = 0 /\ enc_result = GVC_SUCCESS /\ inputs = << >>
    /\ previous_pixels = 0 /\ enc_malloced = {} /\ enc_freed = << >>
    /\ should_exit = 0
    /\ frame_count = 0
    /\ presented = << >>
    /\ close_requested = 0
    /\ errors = << >>
    /\ shutdown = << >> /\ heap_live = 0 /\ ring_put = << >>
    /\ queue = EmptyQueue /\ decoder_data = NoDecoderData /\ dec_pc = "idle"
    /\ dec_frame = NoSlot /\ main_pc = "idle" /\ main_frame = NoSlot
    /\ main_result = GVC_SUCCESS
    /\ frame_ring = EmptyRing
    /\ write_index = 0
    /\ read_index = 0
    /\ frame_count_atomic = 0
    /\ frame_semaphore = 0
    /\ mt_pc = "loop"
    /\ mt_i = 0
    /\ mt_previous = NoRaw
    /\ mt_pending = << >>
    /\ mt_advance = 0
    /\ put_idx = 0
    /\ disp_pc = "test"
    /\ get_idx = 0
    /\ disp_frame = NoSlot
    /\ PlayIdle /\ CodecIdle /\ ContIdle /\ CacheIdle

metalOther == << encVars, playVars, codecVars, contVars, thrPrivate, commit_hashes,
                 cacheVars >>

\* the decode loop of play_from_repo_metal: loop test and decoding of one
\* iteration, up to the first ring_put_frame.  After a failed batch the code
\* frees decoded_frame1.pixels and decoded_frame2.pixels, which were never
\* assigned: the process may die there or go on to the single-frame path.
MetalDecode ==
    /\ mt_pc = "loop"
    /\ IF mt_i < Len(commit_hashes) /\ should_exit = 0
         THEN \E b \in {IF mt_i + 1 < Len(commit_hashes)
                            THEN metal_decode_batch(store, commit_hashes, mt_i)
                            ELSE [kind |-> "single", raw1 |-> NoRaw, raw2 |-> NoRaw]},
                 r \in {metal_decode_single(store, commit_hashes[mt_i + 1], mt_previous)} :
                 \/ /\ b.kind = "batch"
                    /\ mt_pending' = << [frame |-> b.raw1, commit |-> mt_i],
                                        [frame |-> b.raw2, commit |-> mt_i + 1] >>
                    /\ mt_advance' = 2
                    /\ mt_pc' = "p_count"
                    /\ UNCHANGED << mt_i, disp_pc, errors >>
                 \/ /\ b.kind = "failed"
                    /\ mt_pc' = "crashed"
                    /\ disp_pc' = "crashed"
                    /\ UNCHANGED << mt_pending, mt_advance, mt_i, errors >>
                 \/ /\ b.kind # "batch"
                    /\ IF r.result = GVC_SUCCESS
                         THEN /\ mt_pending' = << [frame |-> r.raw, commit |-> mt_i] >>
                              /\ mt_advance' = 1
                              /\ mt_pc' = "p_count"
                              /\ UNCHANGED << mt_i, disp_pc, errors >>
                         ELSE /\ mt_i' = mt_i + 1
                              /\ errors' = Append(errors, [commit |-> mt_i,
                                                            result |-> r.result])
                              /\ UNCHANGED << mt_pending, mt_advance, mt_pc, disp_pc >>
         ELSE /\ mt_pc' = "wait_display"
              /\ UNCHANGED << mt_pending, mt_advance, mt_i, disp_pc, errors >>
    /\ UNCHANGED << should_exit, frame_count, presented, ringVars, frame_semaphore,
                    mt_previous, put_idx, get_idx, disp_frame, close_requested,
                    shutdown, heap_live, ring_put,
                    metalOther >>

\* where ring_put_frame's caller goes when it returned 0: try again, or give
\* up once should_exit is set
PutRetry == IF should_exit = 0 THEN "p_count" ELSE "p_signal"

\* a full test that never finds the ring full
RingFullNever(current_count) == FALSE

\* ring_put_frame: current_count >= RING_BUFFER_SIZE
RingFull(current_count) == current_count >= RING_BUFFER_SIZE

\* ring_put_frame: atomic_load(&frame_count_atomic) and the full test
PutLoadCount ==
    /\ mt_pc = "p_count"
    /\ mt_pc' = IF RingFull(frame_count_atomic) THEN PutRetry ELSE "p_cas"
    /\ UNCHANGED << should_exit, frame_count, presented, ringVars, frame_semaphore,
                    mt_i, mt_previous, mt_pending, mt_advance, put_idx, dispVars,
                    metalOther >>
    /\ UNCHANGED histVars

\* ring_put_frame: atomic_load(&write_index) and the compare-exchange on ready
PutCas ==
    /\ mt_pc = "p_cas"
    /\ put_idx' = write_index
    /\ \E spurious \in BOOLEAN :
         mt_pc' = IF frame_ring[write_index + 1].ready = 0 /\ ~spurious
                    THEN "p_copy" ELSE PutRetry
    /\ UNCHANGED << should_exit, frame_count, presented, ringVars, frame_semaphore,
                    mt_i, mt_previous, mt_pending, mt_advance, dispVars, metalOther >>
    /\ UNCHANGED histVars

\* ring_put_frame: copy the frame into the slot
PutCopy ==
    /\ mt_pc = "p_copy"
    /\ frame_ring' = [frame_ring EXCEPT ![put_idx + 1].frame = Head(mt_pending)]
    /\ mt_pc' = "p_ready"
    /\ UNCHANGED << should_exit, frame_count, presented, write_index, read_index,
                    frame_count_atomic, frame_semaphore, mt_i, mt_previous, mt_pending,
                    mt_advance, put_idx, dispVars, metalOther >>
    /\ UNCHANGED histVars

\* ring_put_frame: atomic_store(&slot->ready, 1)
PutReady ==
    /\ mt_pc = "p_ready"
    /\ frame_ring' = [frame_ring EXCEPT ![put_idx + 1].ready = 1]
    /\ mt_pc' = "p_index"
    /\ UNCHANGED << should_exit, frame_count, presented, write_index, read_index,
                    frame_count_atomic, frame_semaphore, mt_i, mt_previous, mt_pending,
                    mt_advance, put_idx, dispVars, metalOther >>
    /\ UNCHANGED histVars

\* ring_put_frame: atomic_store(&write_index, ...)
PutIndex ==
    /\ mt_pc = "p_index"
    /\ write_index' = (put_idx + 1) % RING_BUFFER_SIZE
    /\ mt_pc' = "p_incr"
    /\ UNCHANGED << should_exit, frame_count, presented, frame_ring, read_index,
                    frame_count_atomic, frame_semaphore, mt_i, mt_previous, mt_pending,
                    mt_advance, put_idx, dispVars, metalOther >>
    /\ UNCHANGED histVars

\* ring_put_frame: atomic_fetch_add(&frame_count_atomic, 1) and return 1
PutIncr ==
    /\ mt_pc = "p_incr"
    /\ frame_count_atomic' = frame_count_atomic + 1
    /\ mt_pc' = "p_signal"
    /\ ring_put' = Append(ring_put, Head(mt_pending))
    /\ UNCHANGED << should_exit, frame_count, presented, frame_ring, write_index,
                    read_index, frame_semaphore, mt_i, mt_previous, mt_pending,
                    mt_advance, put_idx, dispVars, metalOther >>
    /\ UNCHANGED << close_requested, errors, shutdown, heap_live >>

\* dispatch_semaphore_signal after the put loop, then the next frame of the
\* batch or the end of the iteration (previous_frame, i)
PutSignal ==
    /\ mt_pc = "p_signal"
    /\ frame_semaphore' = frame_semaphore + 1
    /\ mt_pending' = Tail(mt_pending)
    /\ IF Len(mt_pending) > 1
         THEN /\ mt_pc' = "p_count"
              /\ UNCHANGED << mt_previous, mt_i >>
         ELSE /\ mt_previous' = Head(mt_pending).frame
              /\ mt_i' = mt_i + mt_advance
              /\ mt_pc' = "loop"
    /\ UNCHANGED << should_exit, frame_count, presented, ringVars, mt_advance, put_idx,
                    dispVars, metalOther >>
    /\ UNCHANGED histVars

\* play_from_repo_metal after the decode loop: wait until should_exit is set
\* or every commit was displayed, then should_exit = 1, a last signal to the
\* display block and usleep(100000)
MetalFinish ==
    /\ mt_pc = "wait_display"
    /\ (should_exit # 0 \/ frame_count >= Len(commit_hashes))
    /\ should_exit' = 1
    /\ frame_semaphore' = frame_semaphore + 1
    /\ mt_pc' = "cleanup"
    /\ shutdown' = shutdown \o << "should_exit", "wake" >>
    /\ UNCHANGED << frame_count, presented, ringVars, mt_i, mt_previous, mt_pending,
                    mt_advance, put_idx, dispVars, encVars, playVars, codecVars,
                    contVars, queue, decoder_data, dec_pc, dec_frame, main_pc,
                    main_frame, main_result, commit_hashes, cacheVars >>
    /\ UNCHANGED << close_requested, errors, heap_live, ring_put >>

\* play_from_repo_metal once the usleep is over, whatever the display block
\* is doing: the pixels of every ring slot that holds some are freed (the
\* pointers stay in the slots), then the commit hashes and the previous frame
MetalCleanup ==
    /\ mt_pc = "cleanup"
    /\ mt_pc' = "close"
    /\ shutdown' = shutdown \o << "release_queue", "release_commit_hashes" >>
    /\ UNCHANGED << should_exit, frame_count, presented, ringVars, frame_semaphore,
                    mt_i, mt_previous, mt_pending, mt_advance, put_idx, dispVars,
                    metalOther >>
    /\ UNCHANGED << close_requested, errors, heap_live, ring_put >>

\* play_from_repo_metal: display_cleanup, then git_cleanup_libgit2, which
\* stops and joins the prefetcher, frees the cached blobs, frees the
\* repository and shuts libgit2 down; the statistics and return GVC_SUCCESS
MetalClose ==
    /\ mt_pc = "close"
    /\ mt_pc' = "done"
    /\ main_result' = GVC_SUCCESS
    /\ shutdown' = shutdown \o << "display_cleanup", "stop_prefetch", "join_prefetch",
                                  "release_cache", "close_session" >>
    /\ UNCHANGED << should_exit, frame_count, presented, ringVars, frame_semaphore,
                    mt_i, mt_previous, mt_pending, mt_advance, put_idx, dispVars,
                    encVars, playVars, codecVars, contVars, queue, decoder_data,
                    dec_pc, dec_frame, main_pc, main_frame, commit_hashes, cacheVars >>
    /\ UNCHANGED << close_requested, errors, heap_live, ring_put >>

\* display_loop: the test of the while loop
DisplayTest ==
    /\ disp_pc = "test"
    /\ IF should_exit # 0
         THEN disp_pc' = "done" /\ UNCHANGED close_requested
         ELSE \E display_should_close \in BOOLEAN :
                IF display_should_close
                  THEN disp_pc' = "done" /\ close_requested' = 1
                  ELSE disp_pc' = "sem" /\ UNCHANGED close_requested
    /\ UNCHANGED << should_exit, frame_count, presented, ringVars, frame_semaphore,
                    prodVars, get_idx, disp_frame, errors, shutdown, heap_live, ring_put,
                    metalOther >>

\* display_loop: dispatch_semaphore_wait, which times out after 16 ms when
\* the count is zero
DisplaySemaphore ==
    /\ disp_pc = "sem"
    /\ IF frame_semaphore > 0
         THEN /\ frame_semaphore' = frame_semaphore - 1
              /\ disp_pc' = IF should_exit # 0 THEN "done" ELSE "g_count"
         ELSE /\ disp_pc' = "test"
              /\ UNCHANGED frame_semaphore
    /\ UNCHANGED << should_exit, frame_count, presented, ringVars, prodVars, get_idx,
                    disp_frame, metalOther >>
    /\ UNCHANGED histVars

\* ring_get_frame: atomic_load(&frame_count_atomic) and the empty test
GetLoadCount ==
    /\ disp_pc = "g_count"
    /\ disp_pc' = IF frame_count_atomic <= 0 THEN "test" ELSE "g_cas"
    /\ UNCHANGED << should_exit, frame_count, presented, ringVars, frame_semaphore,
                    prodVars, get_idx, disp_frame, metalOther >>
    /\ UNCHANGED histVars

\* ring_get_frame: atomic_load(&read_index) and the compare-exchange 1 -> 0
GetCas ==
    /\ disp_pc = "g_cas"
    /\ get_idx' = read_index
    /\ \E spurious \in BOOLEAN :
         IF frame_ring[read_index + 1].ready = 1 /\ ~spurious
           THEN /\ frame_ring' = [frame_ring EXCEPT ![read_index + 1].ready = 0]
                /\ disp_pc' = "g_copy"
           ELSE /\ disp_pc' = "test"
                /\ UNCHANGED frame_ring
    /\ UNCHANGED << should_exit, frame_count, presented, write_index, read_index,
                    frame_count_atomic, frame_semaphore, prodVars, disp_frame,
                    metalOther >>
    /\ UNCHANGED histVars

\* ring_get_frame: *frame = slot->frame; slot->frame.pixels = NULL.  Once
\* play_from_repo_metal has freed the ring's pixels the pointer copied here
\* dangles, and what display_frame then reads through it is undefined: the
\* old bytes, other bytes, or a fault that ends the process
GetCopy ==
    /\ disp_pc = "g_copy"
    /\ \E outcome \in IF \E k \in DOMAIN shutdown : shutdown[k] = "release_queue"
                        THEN {"intact", "overwritten", "fault"}
                        ELSE {"intact"} :
         /\ disp_frame' =
              IF outcome = "overwritten"
                THEN [frame_ring[get_idx + 1].frame EXCEPT
                        !.frame.pixels = [k \in DOMAIN @ |-> 165]]
                ELSE frame_ring[get_idx + 1].frame
         /\ disp_pc' = IF outcome = "fault" THEN "crashed" ELSE "g_index"
         /\ mt_pc' = IF outcome = "fault" /\ mt_pc # "done" THEN "crashed" ELSE mt_pc
    /\ frame_ring' = [frame_ring EXCEPT ![get_idx + 1].frame = NoSlot]
    /\ UNCHANGED << should_exit, frame_count, presented, write_index, read_index,
                    frame_count_atomic, frame_semaphore, mt_i, mt_previous, mt_pending,
                    mt_advance, put_idx, get_idx, metalOther >>
    /\ UNCHANGED histVars

\* ring_get_frame: atomic_store(&read_index, ...)
GetIndex ==
    /\ disp_pc = "g_index"
    /\ read_index' = (get_idx + 1) % RING_BUFFER_SIZE
    /\ disp_pc' = "g_decr"
    /\ UNCHANGED << should_exit, frame_count, presented, frame_ring, write_index,
                    frame_count_atomic, frame_semaphore, prodVars, get_idx, disp_frame,
                    metalOther >>
    /\ UNCHANGED histVars

\* ring_get_frame: atomic_fetch_sub(&frame_count_atomic, 1)
GetDecr ==
    /\ disp_pc = "g_decr"
    /\ frame_count_atomic' = frame_count_atomic - 1
    /\ disp_pc' = "display"
    /\ UNCHANGED << should_exit, frame_count, presented, frame_ring, write_index,
                    read_index, frame_semaphore, prodVars, get_idx, disp_frame,
                    metalOther >>
    /\ UNCHANGED histVars

\* display_loop: display_frame and the rest of the loop body
DisplayFrame ==
    /\ disp_pc = "display"
    /\ \E result \in {GVC_SUCCESS, GVC_ERROR_DISPLAY} :
         IF result = GVC_SUCCESS
           THEN /\ presented' = Append(presented, disp_frame)
                /\ frame_count' = frame_count + 1
                /\ disp_pc' = "test"
                /\ UNCHANGED errors
           ELSE /\ disp_pc' = "done"
                /\ errors' = Append(errors, [commit |-> disp_frame.commit,
                                              result |-> result])
                /\ UNCHANGED << presented, frame_count >>
    /\ disp_frame' = NoSlot
    /\ UNCHANGED << should_exit, ringVars, frame_semaphore, prodVars, get_idx,
                    close_requested, shutdown, heap_live, ring_put, metalOther >>

\* signal_handler on SIGINT or SIGTERM, in either player
SignalHandler ==
    /\ main_pc \notin {"idle", "done"} \/ mt_pc \notin {"idle", "done", "crashed"}
    /\ should_exit = 0
    /\ should_exit' = 1
    /\ UNCHANGED << frame_count, queue, decoder_data, dec_pc, dec_frame, main_pc,
                    main_frame, main_result, presented, thrOther >>
    /\ UNCHANGED histVars

\* pthread_cond_wait returns although nobody signalled (POSIX allows it, and
\* does not promise it; a signal handler that ran on the waiting thread is one
\* cause): the waiter takes the mutex and tests its loop condition again
SpuriousWakeup ==
    /\ \/ /\ main_pc = "wait_not_empty"
          /\ main_pc' = "get"
          /\ UNCHANGED dec_pc
       \/ /\ dec_pc = "wait_not_full"
          /\ dec_pc' = "put"
          /\ UNCHANGED main_pc
    /\ UNCHANGED << should_exit, frame_count, queue, decoder_data, dec_frame,
                    main_frame, main_result, presented, histVars, thrOther >>

InitThreaded == InitStdin \/ InitMetal

NextThreaded ==
    \/ DecoderDecode \/ DecoderPut
    \/ MainLoop \/ MainGet \/ MainDisplay \/ MainStop \/ MainJoin
    \/ MetalDecode \/ PutLoadCount \/ PutCas \/ PutCopy \/ PutReady \/ PutIndex
    \/ PutIncr \/ PutSignal \/ MetalFinish \/ MetalCleanup \/ MetalClose
    \/ DisplayTest \/ DisplaySemaphore \/ GetLoadCount \/ GetCas \/ GetCopy
    \/ GetIndex \/ GetDecr \/ DisplayFrame
    \/ SignalHandler \/ SpuriousWakeup

SpecThreaded == InitThreaded /\ [][NextThreaded]_vars

\* C10: queue ordering.  In both threaded players the frames the presenter
\* has displayed so far come from commits in strictly increasing position of
\* the commit list: of two displayed frames, the one whose commit comes first
\* in the chain was displayed first, whatever the interleaving of the decode
\* worker and the presenter.
C10_QueueOrdering ==
    \A i \in 1..Len(presented) : \A j \in 1..Len(presented) :
        i < j => presented[i].commit < presented[j].commit

C10_Witness ==
    /\ main_pc = "done"
    /\ Len(presented) = num_commits
    /\ presented[num_commits].commit = num_commits - 1
    /\ queue.buffer_read_pos = num_commits % FRAME_BUFFER_SIZE

\* the frames the queue of player.c holds: the buffer_count slots from
\* buffer_read_pos on
HeldSlots(q) ==
    { ((q.buffer_read_pos + k) % FRAME_BUFFER_SIZE) + 1 : k \in 0..(q.buffer_count - 1) }

\* C11: queue bound.  In every state of threaded playback the queue of
\* player.c holds between 0 and FRAME_BUFFER_SIZE frames, its positions agree
\* with its count and every held slot is a decoded frame; the ring of the
\* Metal player counts between 0 and RING_BUFFER_SIZE frames.  No step taken
\* while the queue (ring) is full stores a frame in it, no step taken while it
\* is empty takes one out, and nothing that is not a decoded frame is ever
\* presented.
C11_QueueBound ==
    /\ [](/\ queue.buffer_count \in 0..FRAME_BUFFER_SIZE
          /\ (queue.buffer_read_pos + queue.buffer_count) % FRAME_BUFFER_SIZE
                = queue.buffer_write_pos
          /\ \A k \in HeldSlots(queue) : queue.frame_buffer[k] # NoSlot
          /\ frame_count_atomic \in 0..RING_BUFFER_SIZE
          /\ \A i \in 1..Len(presented) : presented[i] # NoSlot)
    /\ [][/\ queue.buffer_count >= FRAME_BUFFER_SIZE
             => /\ queue'.frame_buffer = queue.frame_buffer
                /\ queue'.buffer_write_pos = queue.buffer_write_pos
          /\ queue.buffer_count = 0
             => /\ queue'.buffer_read_pos = queue.buffer_read_pos
                /\ main_frame' \in {main_frame, NoSlot}
          /\ frame_count_atomic >= RING_BUFFER_SIZE
             => /\ write_index' = write_index
                /\ \A k \in 1..RING_BUFFER_SIZE :
                     frame_ring'[k].frame \in {frame_ring[k].frame, NoSlot}
          /\ frame_count_atomic <= 0
             => /\ read_index' = read_index
                /\ disp_frame' \in {disp_frame, NoSlot}]_vars

\* the decoder waits in buffer_put_frame on a full queue after the presenter
\* has already taken frames out
C11_Witness ==
    /\ dec_pc = "wait_not_full"
    /\ queue.buffer_count = FRAME_BUFFER_SIZE
    /\ Len(presented) > 0
    /\ should_exit = 0

(***************************************************************************)
(* Playback at rest.  The signal handler and a spurious wake-up are steps  *)
(* of the environment, which the program cannot count on.  Playback is at  *)
(* rest when no thread of the program can take a step that changes the     *)
(* state: every thread has returned, is blocked in pthread_cond_wait with  *)
(* nobody left to signal it, or spins in a loop whose test cannot change   *)
(* any more.  A thread at the top of its decode loop (DecoderDecode,       *)
(* MetalDecode) can always step: it decodes, skips a commit or leaves the  *)
(* loop.                                                                   *)
(***************************************************************************)
\* the steps of the threads other than the two decode steps
BlockingNext ==
    \/ DecoderPut
    \/ MainLoop \/ MainGet \/ MainDisplay \/ MainStop \/ MainJoin
    \/ PutLoadCount \/ PutCas \/ PutCopy \/ PutReady \/ PutIndex \/ PutIncr
    \/ PutSignal \/ MetalFinish \/ MetalCleanup \/ MetalClose
    \/ DisplayTest \/ DisplaySemaphore \/ GetLoadCount \/ GetCas \/ GetCopy
    \/ GetIndex \/ GetDecr \/ DisplayFrame

AtRest ==
    /\ dec_pc # "loop"
    /\ mt_pc # "loop"
    /\ ~ENABLED << BlockingNext >>_vars

\* the play function has returned (or the process has died)
PlayReturned == main_pc = "done" \/ mt_pc \in {"done", "crashed"}

\* C12: cancellation.  Once should_exit is set, playback never comes to rest
\* with a thread still blocked in a wait of the pipeline: the presenter
\* waiting in buffer_get_frame for a frame, the decoder waiting in
\* buffer_put_frame for room, the display loop waiting on the frame
\* semaphore, or the Metal main thread waiting for the display to finish.
C12_Cancellation ==
    (should_exit # 0 /\ AtRest)
    => /\ main_pc # "wait_not_empty"
       /\ dec_pc # "wait_not_full"
       /\ disp_pc # "sem"
       /\ mt_pc # "wait_display"

\* C13: termination on exhaustion.  Whether or not every frame decoded, once
\* the decode worker has gone through every commit id and the queue has
\* drained (nothing queued, nothing in the presenter's hands), playback does
\* not come to rest before the play function has returned.
C13_TerminationOnExhaustion ==
    (/\ \/ /\ main_pc # "idle"
           /\ decoder_data.current_commit >= Len(commit_hashes)
           /\ dec_frame = NoSlot
           /\ queue.buffer_count = 0
           /\ main_frame = NoSlot
        \/ /\ mt_pc # "idle"
           /\ mt_i >= Len(commit_hashes)
           /\ mt_pending = << >>
           /\ frame_count_atomic = 0
           /\ disp_frame = NoSlot
     /\ AtRest)
    => PlayReturned

\* C14: termination on close.  Once display_should_close has returned true,
\* playback does not come to rest before the decode loop and the presenter
\* loop have both exited and the play function has returned.
C14_TerminationOnClose ==
    (close_requested = 1 /\ AtRest)
    => /\ PlayReturned
       /\ dec_pc \in {"idle", "done"}
       /\ disp_pc \in {"idle", "done", "crashed"}

\* C15: per-frame errors are fatal.  No frame of a commit that comes after a
\* failed one is handed to the presenter's display, and no frame is decoded
\* after a failure (the frame the decoder holds or has queued is never of a
\* later commit than a failed one).
C15_ErrorsFatal ==
    \A e \in 1..Len(errors) :
        /\ \A i \in 1..Len(presented) : presented[i].commit < errors[e].commit
        /\ dec_frame # NoSlot => dec_frame.commit < errors[e].commit
        /\ \A i \in 1..Len(mt_pending) : mt_pending[i].commit < errors[e].commit

\* C16: errors are surfaced.  When a frame failed to decode or the presenter
\* reported a failure during playback, the play function does not return
\* GVC_SUCCESS.
C16_ErrorsSurfaced ==
    ((main_pc = "done" \/ mt_pc = "done") /\ errors # << >>)
    => main_result # GVC_SUCCESS

\* C17: encoder abort.  When encode_video_sequence has returned an error, the
\* step that failed was for frame frame_num: the store holds a commit for
\* every earlier frame, none for a later frame, and the frame number written
\* in every commit's record is at most frame_num.  When it has returned
\* GVC_SUCCESS no step failed: every one of the num_frames frames has its
\* commit.  Once it has returned, the store does not change.
C17_EncoderAbort ==
    /\ [](enc_pc = "done"
            => /\ \A c \in 1..Len(store.commits) :
                     ReadLE32(store.commits[c].tree, 4) <= frame_num
               /\ enc_result # GVC_SUCCESS
                    => /\ frame_num < num_frames
                       /\ Len(store.commits) \in {frame_num, frame_num + 1}
               /\ enc_result = GVC_SUCCESS
                    => /\ frame_num = num_frames
                       /\ Len(store.commits) = num_frames
                       /\ \A c \in 1..num_frames :
                            ReadLE32(store.commits[c].tree, 4) = c - 1)
    /\ [][enc_pc = "done" => store' = store]_vars

\* the encoder has written two frames and failed on the third: update-ref
\* failed after commit-tree had written the commit object of frame 2
C17_Witness ==
    /\ enc_pc = "done"
    /\ enc_result = GVC_ERROR_GIT
    /\ frame_num = 2
    /\ Len(store.commits) = 3

(***************************************************************************)
(* The blob cache of the libgit2 reader (src/unnamed/part_000).  The       *)
(* decode path calls git_read_blob_libgit2 for commit ids, in any order    *)
(* and as often as it likes, while prefetch_worker goes through the commit *)
(* list it was started with.  A step is one critical section of            *)
(* cache_mutex, prefetch_mutex or repo_mutex, or one stretch of            *)
(* thread-local work.  A commit id is its index in the store, a git_blob   *)
(* handle is its index in git_blobs.                                       *)
(***************************************************************************)
\* a find_blob_in_cache that returns the first valid entry whatever its key
find_blob_in_cache_any(cache, oid_str) ==
    LET hits == { k \in 1..PREFETCH_CACHE_SIZE : cache[k].valid = 1 } IN
    IF hits = {} THEN 0
    ELSE cache[CHOOSE k \in hits : \A j \in hits : k <= j].blob

\* find_blob_in_cache: the blob of the first valid entry whose oid_str is
\* equal to oid_str, or NULL
find_blob_in_cache(cache, oid_str) ==
    LET hits == { k \in 1..PREFETCH_CACHE_SIZE :
                    cache[k].valid = 1 /\ cache[k].oid_str = oid_str } IN
    IF hits = {} THEN 0
    ELSE cache[CHOOSE k \in hits : \A j \in hits : k <= j].blob

\* an add_blob_to_cache that, when its slot is occupied, overwrites the slot
\* written last instead
add_blob_to_cache_newest(cache, pos, blobs, oid_str, blob) ==
    LET slot == IF cache[pos + 1].valid = 1
                  THEN (pos + PREFETCH_CACHE_SIZE - 1) % PREFETCH_CACHE_SIZE
                  ELSE pos
        old == cache[slot + 1]
    IN [blob_cache |-> [cache EXCEPT ![slot + 1] =
                          [oid_str |-> oid_str, blob |-> blob, valid |-> 1]],
        cache_write_pos |-> (pos + 1) % PREFETCH_CACHE_SIZE,
        git_blobs |-> IF old.valid = 1 /\ old.blob # 0
                        THEN [blobs EXCEPT ![old.blob].freed = TRUE]
                        ELSE blobs,
        slot |-> slot]

\* add_blob_to_cache: git_blob_free of what the slot at cache_write_pos holds,
\* the new entry written there, cache_write_pos advanced; slot is the C index
\* written
add_blob_to_cache(cache, pos, blobs, oid_str, blob) ==
    LET slot == pos
        old == cache[slot + 1]
    IN [blob_cache |-> [cache EXCEPT ![slot + 1] =
                          [oid_str |-> oid_str, blob |-> blob, valid |-> 1]],
        cache_write_pos |-> (pos + 1) % PREFETCH_CACHE_SIZE,
        git_blobs |-> IF old.valid = 1 /\ old.blob # 0
                        THEN [blobs EXCEPT ![old.blob].freed = TRUE]
                        ELSE blobs,
        slot |-> slot]

\* a git_blob_lookup that resolves a commit id to the commit's frame.bin blob
git_blob_lookup_any(st, oid) ==
    IF oid \in 1..Len(st.commits)
      THEN [error |-> 0, data |-> st.commits[oid].tree]
      ELSE [error |-> -3, data |-> << >>]

\* git_blob_lookup as prefetch_worker calls it, with the id of a commit: the
\* object that id names is not a blob, and libgit2 answers GIT_ENOTFOUND (-3)
git_blob_lookup(st, oid) == [error |-> -3, data |-> << >>]

InitCache ==
    /\ store = BuildClip(EmptyStore, 0, 0)
    /\ commit_hashes = git_get_commit_chain(store, PLAY_MAX_COMMITS)
    /\ enc_pc = "idle" /\ frame_num = 0 /\ previous_frame = NoRaw
    /\ previous_commit_hash = 0 /\ enc_result = GVC_SUCCESS /\ inputs = << >>
    /\ previous_pixels = 0 /\ enc_malloced = {} /\ enc_freed = << >>
    /\ should_exit = 0 /\ frame_count = 0 /\ queue = EmptyQueue
    /\ decoder_data = NoDecoderData /\ dec_pc = "idle" /\ dec_frame = NoSlot
    /\ main_pc = "idle" /\ main_frame = NoSlot /\ main_result = GVC_SUCCESS
    /\ presented = << >> /\ close_requested = 0 /\ errors = << >>
    /\ shutdown = << >> /\ heap_live = 0 /\ ring_put = << >>
    /\ frame_ring = EmptyRing /\ write_index = 0 /\ read_index = 0
    /\ frame_count_atomic = 0 /\ frame_semaphore = 0
    /\ mt_pc = "idle" /\ mt_i = 0 /\ mt_previous = NoRaw /\ mt_pending = << >>
    /\ mt_advance = 0 /\ put_idx = 0
    /\ disp_pc = "idle" /\ get_idx = 0 /\ disp_frame = NoSlot
    /\ PlayIdle /\ CodecIdle /\ ContIdle
    /\ blob_cache = [k \in 1..PREFETCH_CACHE_SIZE |-> [oid_str |-> 0, blob |-> 0, valid |-> 0]]
    /\ cache_write_pos = 0 /\ git_blobs = << >> /\ inserted = << >>
    /\ rd_pc = "idle" /\ rd_commit_hash = 0 /\ rd_blob = 0
    /\ rd_out = [commit |-> 0, result |-> GVC_SUCCESS, data |-> << >>, cached |-> 0]
    \* git_start_prefetch has run
    /\ prefetch_running = 1 /\ prefetch_queue_pos = 0 /\ pf_pc = "take"
    /\ pf_oid_str = 0 /\ rd_held = {} /\ pf_held = {}

\* a pthread_mutex_lock that returns whoever holds the mutex
pthread_mutex_lock_unchecked(mutex, held_elsewhere) == TRUE

\* pthread_mutex_lock returns only when no other thread holds the mutex
pthread_mutex_lock(mutex, held_elsewhere) == mutex \notin held_elsewhere

\* a pthread_mutex_unlock that leaves the mutex held
pthread_mutex_unlock_skipped(held, mutex) == held

\* pthread_mutex_unlock: what the thread holds afterwards
pthread_mutex_unlock(held, mutex) == held \ {mutex}

\* git_read_blob_libgit2 is called with a commit id of the chain or with an
\* id the repository does not have; find_blob_in_cache takes cache_mutex
ReadLockCache ==
    /\ rd_pc = "idle"
    /\ pthread_mutex_lock("cache_mutex", pf_held)
    /\ \E commit_hash \in 1..(Len(commit_hashes) + 1) :
         /\ find_blob_in_cache(blob_cache, commit_hash) # 0 \/ Len(git_blobs) < MaxBlobs
         /\ rd_commit_hash' = commit_hash
    /\ rd_held' = rd_held \cup {"cache_mutex"}
    /\ rd_pc' = "find"
    /\ UNCHANGED << blob_cache, cache_write_pos, git_blobs, inserted, rd_blob, rd_out,
                    prefetch_running, prefetch_queue_pos, pf_pc, pf_oid_str, pf_held >>
    /\ UNCHANGED << codecVars, contVars, encVars, playVars, thrVars, ringVars,
                    frame_semaphore, prodVars, dispVars >>

\* find_blob_in_cache: the search and the unlock on either return
ReadFind ==
    /\ rd_pc = "find"
    /\ LET cached_blob == find_blob_in_cache(blob_cache, rd_commit_hash) IN
         /\ rd_blob' = cached_blob
         /\ rd_pc' = IF cached_blob # 0 THEN "copy_cached" ELSE "lock_repo"
    /\ rd_held' = pthread_mutex_unlock(rd_held, "cache_mutex")
    /\ UNCHANGED << blob_cache, cache_write_pos, git_blobs, inserted, rd_commit_hash,
                    rd_out, prefetch_running, prefetch_queue_pos, pf_pc, pf_oid_str,
                    pf_held >>
    /\ UNCHANGED << codecVars, contVars, encVars, playVars, thrVars, ringVars,
                    frame_semaphore, prodVars, dispVars >>

\* git_read_blob_libgit2 on a hit: git_blob_rawcontent, malloc, memcpy, return.
\* Reading a blob that git_blob_free has released is a read of freed memory:
\* the bytes may still be there or not.
ReadCopyCached ==
    /\ rd_pc = "copy_cached"
    /\ \E malloc_ok \in BOOLEAN :
       \E blob_data \in IF git_blobs[rd_blob].freed
                          THEN {git_blobs[rd_blob].data, << >>}
                          ELSE {git_blobs[rd_blob].data} :
         rd_out' = IF malloc_ok
                     THEN [commit |-> rd_commit_hash, result |-> GVC_SUCCESS,
                           data |-> blob_data, cached |-> 1]
                     ELSE [commit |-> rd_commit_hash, result |-> GVC_ERROR_MEMORY,
                           data |-> << >>, cached |-> 1]
    /\ rd_pc' = "idle"
    /\ rd_blob' = 0
    /\ UNCHANGED << blob_cache, cache_write_pos, git_blobs, inserted, rd_commit_hash,
                    prefetch_running, prefetch_queue_pos, pf_pc, pf_oid_str,
                    rd_held, pf_held >>
    /\ UNCHANGED << codecVars, contVars, encVars, playVars, thrVars, ringVars,
                    frame_semaphore, prodVars, dispVars >>

\* git_read_blob_libgit2 on a miss: pthread_mutex_lock(&repo_mutex)
ReadLockRepo ==
    /\ rd_pc = "lock_repo"
    /\ pthread_mutex_lock("repo_mutex", pf_held)
    /\ rd_held' = rd_held \cup {"repo_mutex"}
    /\ rd_pc' = "load"
    /\ UNCHANGED << blob_cache, cache_write_pos, git_blobs, inserted, rd_commit_hash,
                    rd_blob, rd_out, prefetch_running, prefetch_queue_pos, pf_pc,
                    pf_oid_str, pf_held >>
    /\ UNCHANGED << codecVars, contVars, encVars, playVars, thrVars, ringVars,
                    frame_semaphore, prodVars, dispVars >>

\* git_read_blob_libgit2 on a miss: commit, tree, frame.bin entry and blob
\* looked up under repo_mutex, the unlock on the error return and on the way
\* on, then the copy into *data_out.  When malloc fails the blob is freed at
\* once and no handle to it remains.
ReadLoad ==
    /\ rd_pc = "load"
    /\ IF rd_commit_hash \notin 1..Len(store.commits)
         THEN /\ rd_out' = [commit |-> rd_commit_hash, result |-> GVC_ERROR_GIT,
                            data |-> << >>, cached |-> 0]
              /\ rd_pc' = "idle"
              /\ UNCHANGED << git_blobs, rd_blob >>
         ELSE \E malloc_ok \in BOOLEAN :
                LET blob == [data |-> store.commits[rd_commit_hash].tree,
                             freed |-> FALSE]
                IN IF malloc_ok
                     THEN /\ git_blobs' = Append(git_blobs, blob)
                          /\ rd_out' = [commit |-> rd_commit_hash,
                                        result |-> GVC_SUCCESS,
                                        data |-> blob.data, cached |-> 0]
                          /\ rd_blob' = Len(git_blobs) + 1
                          /\ rd_pc' = "lock_add"
                     ELSE /\ rd_out' = [commit |-> rd_commit_hash,
                                        result |-> GVC_ERROR_MEMORY,
                                        data |-> << >>, cached |-> 0]
                          /\ rd_pc' = "idle"
                          /\ UNCHANGED << git_blobs, rd_blob >>
    /\ rd_held' = pthread_mutex_unlock(rd_held, "repo_mutex")
    /\ UNCHANGED << blob_cache, cache_write_pos, inserted, rd_commit_hash,
                    prefetch_running, prefetch_queue_pos, pf_pc, pf_oid_str, pf_held >>
    /\ UNCHANGED << codecVars, contVars, encVars, playVars, thrVars, ringVars,
                    frame_semaphore, prodVars, dispVars >>

\* git_read_blob_libgit2 on a miss: add_blob_to_cache takes cache_mutex
ReadLockAdd ==
    /\ rd_pc = "lock_add"
    /\ pthread_mutex_lock("cache_mutex", pf_held)
    /\ rd_held' = rd_held \cup {"cache_mutex"}
    /\ rd_pc' = "add"
    /\ UNCHANGED << blob_cache, cache_write_pos, git_blobs, inserted, rd_commit_hash,
                    rd_blob, rd_out, prefetch_running, prefetch_queue_pos, pf_pc,
                    pf_oid_str, pf_held >>
    /\ UNCHANGED << codecVars, contVars, encVars, playVars, thrVars, ringVars,
                    frame_semaphore, prodVars, dispVars >>

\* git_read_blob_libgit2 on a miss: add_blob_to_cache, its unlock, and return
ReadAdd ==
    /\ rd_pc = "add"
    /\ LET r == add_blob_to_cache(blob_cache, cache_write_pos, git_blobs,
                                  rd_commit_hash, rd_blob)
       IN /\ blob_cache' = r.blob_cache
          /\ cache_write_pos' = r.cache_write_pos
          /\ git_blobs' = r.git_blobs
          /\ inserted' = Append(inserted, r.slot)
    /\ rd_held' = pthread_mutex_unlock(rd_held, "cache_mutex")
    /\ rd_pc' = "idle"
    /\ rd_blob' = 0
    /\ UNCHANGED << rd_commit_hash, rd_out, prefetch_running, prefetch_queue_pos,
                    pf_pc, pf_oid_str, pf_held >>
    /\ UNCHANGED << codecVars, contVars, encVars, playVars, thrVars, ringVars,
                    frame_semaphore, prodVars, dispVars >>

\* prefetch_worker: the test of the outer loop, then
\* pthread_mutex_lock(&prefetch_mutex)
PrefetchLoop ==
    /\ pf_pc = "take"
    /\ \/ /\ prefetch_running = 0
          /\ pf_pc' = "done"
          /\ UNCHANGED pf_held
       \/ /\ prefetch_running = 1
          /\ pthread_mutex_lock("prefetch_mutex", rd_held)
          /\ pf_held' = pf_held \cup {"prefetch_mutex"}
          /\ pf_pc' = "locked"
    /\ UNCHANGED << blob_cache, cache_write_pos, git_blobs, inserted, rd_pc,
                    rd_commit_hash, rd_blob, rd_out, prefetch_running,
                    prefetch_queue_pos, pf_oid_str, rd_held >>
    /\ UNCHANGED << codecVars, contVars, encVars, playVars, thrVars, ringVars,
                    frame_semaphore, prodVars, dispVars >>

\* prefetch_worker under prefetch_mutex: with the queue used up it waits on
\* prefetch_cond, which gives the mutex up; stopped, it unlocks and leaves;
\* otherwise it takes the next id of prefetch_queue and unlocks
PrefetchTake ==
    /\ pf_pc = "locked"
    /\ IF prefetch_running = 1 /\ prefetch_queue_pos >= Len(commit_hashes)
         THEN /\ pf_pc' = "wait"
              /\ pf_held' = pf_held \ {"prefetch_mutex"}
              /\ UNCHANGED << prefetch_queue_pos, pf_oid_str >>
       ELSE IF prefetch_running = 0
         THEN /\ pf_pc' = "done"
              /\ pf_held' = pthread_mutex_unlock(pf_held, "prefetch_mutex")
              /\ UNCHANGED << prefetch_queue_pos, pf_oid_str >>
         ELSE /\ pf_oid_str' = commit_hashes[prefetch_queue_pos + 1]
              /\ prefetch_queue_pos' = prefetch_queue_pos + 1
              /\ pf_held' = pthread_mutex_unlock(pf_held, "prefetch_mutex")
              /\ pf_pc' = "lock_find"
    /\ UNCHANGED << blob_cache, cache_write_pos, git_blobs, inserted, rd_pc,
                    rd_commit_hash, rd_blob, rd_out, prefetch_running, rd_held >>
    /\ UNCHANGED << codecVars, contVars, encVars, playVars, thrVars, ringVars,
                    frame_semaphore, prodVars, dispVars >>

\* prefetch_worker woken in pthread_cond_wait: it returns with prefetch_mutex
\* taken again
PrefetchWake ==
    /\ pf_pc = "wake"
    /\ pthread_mutex_lock("prefetch_mutex", rd_held)
    /\ pf_held' = pf_held \cup {"prefetch_mutex"}
    /\ pf_pc' = "locked"
    /\ UNCHANGED << blob_cache, cache_write_pos, git_blobs, inserted, rd_pc,
                    rd_commit_hash, rd_blob, rd_out, prefetch_running,
                    prefetch_queue_pos, pf_oid_str, rd_held >>
    /\ UNCHANGED << codecVars, contVars, encVars, playVars, thrVars, ringVars,
                    frame_semaphore, prodVars, dispVars >>

\* prefetch_worker: find_blob_in_cache takes cache_mutex
PrefetchLockCache ==
    /\ pf_pc = "lock_find"
    /\ pthread_mutex_lock("cache_mutex", rd_held)
    /\ pf_held' = pf_held \cup {"cache_mutex"}
    /\ pf_pc' = "find"
    /\ UNCHANGED << blob_cache, cache_write_pos, git_blobs, inserted, rd_pc,
                    rd_commit_hash, rd_blob, rd_out, prefetch_running,
                    prefetch_queue_pos, pf_oid_str, rd_held >>
    /\ UNCHANGED << codecVars, contVars, encVars, playVars, thrVars, ringVars,
                    frame_semaphore, prodVars, dispVars >>

\* prefetch_worker: find_blob_in_cache, continue when the id is cached
PrefetchFind ==
    /\ pf_pc = "find"
    /\ pf_pc' = IF find_blob_in_cache(blob_cache, pf_oid_str) # 0
                  THEN "take" ELSE "lock_repo"
    /\ pf_held' = pthread_mutex_unlock(pf_held, "cache_mutex")
    /\ UNCHANGED << blob_cache, cache_write_pos, git_blobs, inserted, rd_pc,
                    rd_commit_hash, rd_blob, rd_out, prefetch_running,
                    prefetch_queue_pos, pf_oid_str, rd_held >>
    /\ UNCHANGED << codecVars, contVars, encVars, playVars, thrVars, ringVars,
                    frame_semaphore, prodVars, dispVars >>

\* prefetch_worker: pthread_mutex_lock(&repo_mutex)
PrefetchLockRepo ==
    /\ pf_pc = "lock_repo"
    /\ pthread_mutex_lock("repo_mutex", rd_held)
    /\ pf_held' = pf_held \cup {"repo_mutex"}
    /\ pf_pc' = "fetch"
    /\ UNCHANGED << blob_cache, cache_write_pos, git_blobs, inserted, rd_pc,
                    rd_commit_hash, rd_blob, rd_out, prefetch_running,
                    prefetch_queue_pos, pf_oid_str, rd_held >>
    /\ UNCHANGED << codecVars, contVars, encVars, playVars, thrVars, ringVars,
                    frame_semaphore, prodVars, dispVars >>

\* prefetch_worker: git_blob_lookup under repo_mutex, the unlock and, if it
\* found a blob, add_blob_to_cache
PrefetchFetch ==
    /\ pf_pc = "fetch"
    /\ LET f == git_blob_lookup(store, pf_oid_str)
           r == add_blob_to_cache(blob_cache, cache_write_pos,
                                  Append(git_blobs, [data |-> f.data, freed |-> FALSE]),
                                  pf_oid_str, Len(git_blobs) + 1)
       IN IF f.error = 0
            THEN /\ blob_cache' = r.blob_cache
                 /\ cache_write_pos' = r.cache_write_pos
                 /\ git_blobs' = r.git_blobs
                 /\ inserted' = Append(inserted, r.slot)
            ELSE UNCHANGED << blob_cache, cache_write_pos, git_blobs, inserted >>
    /\ pf_held' = pthread_mutex_unlock(pf_held, "repo_mutex")
    /\ pf_pc' = "take"
    /\ UNCHANGED << rd_pc, rd_commit_hash, rd_blob, rd_out, prefetch_running,
                    prefetch_queue_pos, pf_oid_str, rd_held >>
    /\ UNCHANGED << codecVars, contVars, encVars, playVars, thrVars, ringVars,
                    frame_semaphore, prodVars, dispVars >>

\* git_cleanup_libgit2 calls git_stop_prefetch: the test of prefetch_running
\* and pthread_mutex_lock(&prefetch_mutex)
StopLock ==
    /\ rd_pc = "idle"
    /\ prefetch_running = 1
    /\ pthread_mutex_lock("prefetch_mutex", pf_held)
    /\ rd_held' = rd_held \cup {"prefetch_mutex"}
    /\ rd_pc' = "stop"
    /\ UNCHANGED << blob_cache, cache_write_pos, git_blobs, inserted, rd_commit_hash,
                    rd_blob, rd_out, prefetch_running, prefetch_queue_pos, pf_pc,
                    pf_oid_str, pf_held >>
    /\ UNCHANGED << codecVars, contVars, encVars, playVars, thrVars, ringVars,
                    frame_semaphore, prodVars, dispVars >>

\* git_stop_prefetch under prefetch_mutex: prefetch_running cleared,
\* pthread_cond_broadcast wakes the worker if it waits, unlock; pthread_join
\* is next
StopPrefetch ==
    /\ rd_pc = "stop"
    /\ prefetch_running' = 0
    /\ pf_pc' = IF pf_pc = "wait" THEN "wake" ELSE pf_pc
    /\ rd_held' = pthread_mutex_unlock(rd_held, "prefetch_mutex")
    /\ rd_pc' = "join"
    /\ UNCHANGED << blob_cache, cache_write_pos, git_blobs, inserted, rd_commit_hash,
                    rd_blob, rd_out, prefetch_queue_pos, pf_oid_str, pf_held >>
    /\ UNCHANGED << codecVars, contVars, encVars, playVars, thrVars, ringVars,
                    frame_semaphore, prodVars, dispVars >>

\* git_cleanup_libgit2 after pthread_join: under cache_mutex every valid
\* entry's blob is freed and the entry marked invalid
CleanupCache ==
    /\ rd_pc = "join"
    /\ pf_pc = "done"
    /\ pthread_mutex_lock("cache_mutex", pf_held)
    /\ git_blobs' = [h \in 1..Len(git_blobs) |->
                       IF \E k \in 1..PREFETCH_CACHE_SIZE :
                            blob_cache[k].valid = 1 /\ blob_cache[k].blob = h
                         THEN [git_blobs[h] EXCEPT !.freed = TRUE]
                         ELSE git_blobs[h]]
    /\ blob_cache' = [k \in 1..PREFETCH_CACHE_SIZE |->
                        IF blob_cache[k].valid = 1 /\ blob_cache[k].blob # 0
                          THEN [blob_cache[k] EXCEPT !.valid = 0]
                          ELSE blob_cache[k]]
    /\ rd_held' = pthread_mutex_unlock(rd_held \cup {"cache_mutex"}, "cache_mutex")
    /\ rd_pc' = "done"
    /\ UNCHANGED << cache_write_pos, inserted, rd_commit_hash, rd_blob, rd_out,
                    prefetch_running, prefetch_queue_pos, pf_pc, pf_oid_str, pf_held >>
    /\ UNCHANGED << codecVars, contVars, encVars, playVars, thrVars, ringVars,
                    frame_semaphore, prodVars, dispVars >>

NextCache ==
    \/ ReadLockCache \/ ReadFind \/ ReadCopyCached \/ ReadLockRepo \/ ReadLoad
    \/ ReadLockAdd \/ ReadAdd
    \/ PrefetchLoop \/ PrefetchTake \/ PrefetchWake \/ PrefetchLockCache
    \/ PrefetchFind \/ PrefetchLockRepo \/ PrefetchFetch
    \/ StopLock \/ StopPrefetch \/ CleanupCache

SpecCache == InitCache /\ [][NextCache]_vars

\* the prefetch thread and the thread inside git_cleanup_libgit2 are scheduled
\* whenever they can run; nothing obliges the decode path to read or to stop
SpecCacheFair ==
    /\ SpecCache
    /\ WF_vars(PrefetchLoop) /\ WF_vars(PrefetchTake) /\ WF_vars(PrefetchWake)
    /\ WF_vars(PrefetchLockCache) /\ WF_vars(PrefetchFind)
    /\ WF_vars(PrefetchLockRepo) /\ WF_vars(PrefetchFetch)
    /\ WF_vars(ReadFind) /\ WF_vars(ReadLoad) /\ WF_vars(ReadAdd)
    /\ WF_vars(StopPrefetch) /\ WF_vars(CleanupCache)

\* C18: blob cache bound and FIFO eviction.  The cache never holds more than
\* PREFETCH_CACHE_SIZE valid entries, cache_write_pos stays in
\* 0..PREFETCH_CACHE_SIZE-1 and a valid entry holds a blob that has not been
\* freed.  An insertion into a full cache overwrites the entry that was
\* inserted earliest, frees the blob that entry held and nothing else, and
\* leaves every other entry as it was.
C18_CacheBound ==
    /\ [](/\ cache_write_pos \in 0..(PREFETCH_CACHE_SIZE - 1)
          /\ DOMAIN blob_cache = 1..PREFETCH_CACHE_SIZE
          /\ Cardinality({ k \in DOMAIN blob_cache : blob_cache[k].valid = 1 })
               <= PREFETCH_CACHE_SIZE
          /\ \A k \in DOMAIN blob_cache :
               blob_cache[k].valid = 1
                 => /\ blob_cache[k].blob \in 1..Len(git_blobs)
                    /\ ~git_blobs[blob_cache[k].blob].freed)
    /\ [][(/\ inserted' # inserted
           /\ \A k \in 1..PREFETCH_CACHE_SIZE : blob_cache[k].valid = 1)
          => LET LastAt(c) == CHOOSE n \in 1..Len(inserted) :
                                /\ inserted[n] = c
                                /\ \A m \in (n + 1)..Len(inserted) : inserted[m] # c
                 e == CHOOSE c \in 0..(PREFETCH_CACHE_SIZE - 1) :
                        \A d \in 0..(PREFETCH_CACHE_SIZE - 1) : LastAt(c) <= LastAt(d)
             IN /\ blob_cache'[e + 1] # blob_cache[e + 1]
                /\ blob_cache'[e + 1].valid = 1
                /\ git_blobs'[blob_cache[e + 1].blob].freed
                /\ \A k \in 1..PREFETCH_CACHE_SIZE :
                     k # e + 1 => blob_cache'[k] = blob_cache[k]
                /\ \A h \in 1..Len(git_blobs) :
                     h # blob_cache[e + 1].blob => git_blobs'[h] = git_blobs[h]]_vars

\* the cache was full and one more blob has been inserted: the blob inserted
\* first has been freed, its slot holds the new entry
C18_Witness ==
    /\ Len(inserted) = PREFETCH_CACHE_SIZE + 1
    /\ Len(git_blobs) = PREFETCH_CACHE_SIZE + 1
    /\ git_blobs[1].freed
    /\ blob_cache[1].blob = PREFETCH_CACHE_SIZE + 1
    /\ \A k \in 1..PREFETCH_CACHE_SIZE : blob_cache[k].valid = 1

\* C19: cache transparency.  A successful git_read_blob_libgit2 returns the
\* bytes of the frame.bin blob of the commit it was called with, from the
\* cache or from the store, and it fails with GVC_ERROR_GIT only for an id
\* the store does not have; every valid cache entry holds the blob of the
\* commit it is filed under.  The call takes the cached blob exactly when
\* the cache has an entry for the id, and a call that loaded the blob from
\* the store leaves an entry for the id in the cache.
C19_CacheTransparency ==
    /\ [](/\ rd_out.result = GVC_SUCCESS /\ rd_out.commit # 0
               => rd_out = [commit |-> rd_out.commit, cached |-> rd_out.cached,
                            result |-> git_read_blob_libgit2(store, rd_out.commit).result,
                            data |-> git_read_blob_libgit2(store, rd_out.commit).data]
          /\ rd_out.result = GVC_ERROR_GIT
               => git_read_blob_libgit2(store, rd_out.commit).result = GVC_ERROR_GIT
          /\ \A k \in 1..PREFETCH_CACHE_SIZE :
               blob_cache[k].valid = 1
                 => git_blobs[blob_cache[k].blob].data
                      = git_read_blob_libgit2(store, blob_cache[k].oid_str).data)
    /\ [][/\ (rd_pc = "find" /\ rd_pc' \in {"copy_cached", "lock_repo"})
               => (rd_pc' = "copy_cached"
                     <=> \E k \in 1..PREFETCH_CACHE_SIZE :
                           /\ blob_cache[k].valid = 1
                           /\ blob_cache[k].oid_str = rd_commit_hash)
          /\ (rd_pc = "add" /\ rd_pc' = "idle")
               => \E k \in 1..PREFETCH_CACHE_SIZE :
                     /\ blob_cache'[k].valid = 1
                     /\ blob_cache'[k].oid_str = rd_commit_hash
                     /\ blob_cache'[k].blob = rd_blob]_vars

\* a read has been served from the cache after another entry had been
\* evicted, with the prefetcher at work
C19_Witness ==
    /\ rd_pc = "idle"
    /\ rd_out.cached = 1
    /\ rd_out.result = GVC_SUCCESS
    /\ Len(inserted) > PREFETCH_CACHE_SIZE
    /\ pf_pc = "fetch"

C21_ShutdownOrder ==
    LET Rank(step) ==
          CASE step = "should_exit" -> 1
            [] step = "wake" -> 2
            [] step = "join_decoder" -> 3
            [] step = "stop_prefetch" -> 4
            [] step = "join_prefetch" -> 5
            [] step = "release_queue" -> 6
            [] step = "close_session" -> 7
            [] step = "release_cache" -> 8
            [] OTHER -> 0
    IN \A i, j \in DOMAIN shutdown :
         (i < j /\ Rank(shutdown[i]) > 0 /\ Rank(shutdown[j]) > 0)
           => Rank(shutdown[i]) < Rank(shutdown[j])

\* C22: frame pacing without catch-up.  In play_from_repo every iteration
\* that is followed by another one lasts at least FRAME_TIME_NS, measured on
\* the monotonic clock from its frame start to the next frame start: when
\* the loop is about to start a further iteration, the frame start of that
\* iteration is at least one frame interval after the frame start of the
\* iteration before it, also when an earlier frame took longer than the
\* interval.
C22_FramePacing ==
    (play_pc = "loop" /\ play_i > 0 /\ play_i < Len(commits) /\ should_exit = 0)
    => frame_start_time - last_frame_start >= FRAME_TIME_NS

\* the first iteration took two intervals, the second was paced to exactly
\* one interval and a third iteration is about to start
C22_Witness ==
    /\ play_pc = "loop" /\ play_i = 2 /\ play_i < Len(commits) /\ should_exit = 0
    /\ last_frame_start = 2 * FRAME_TIME_NS
    /\ frame_start_time - last_frame_start = FRAME_TIME_NS

(***************************************************************************)
(* The delta codec on damaged and on extreme inputs                        *)
(***************************************************************************)
\* the command stream db, read from C offset delta_pos on, is made of whole
\* commands (a command byte, a run length, and run-length delta bytes after
\* 0x01) whose runs cover at least the pixel_count - pixel_pos bytes left
RECURSIVE CommandsCover(_, _, _, _)
CommandsCover(db, delta_pos, pixel_pos, pixel_count) ==
    IF delta_pos >= Len(db) THEN pixel_pos >= pixel_count
    ELSE IF delta_pos + 1 >= Len(db) THEN FALSE
    ELSE LET command == db[delta_pos + 1]
             run_length == db[delta_pos + 2]
         IN IF command = 1
              THEN /\ delta_pos + 2 + run_length <= Len(db)
                   /\ CommandsCover(db, delta_pos + 2 + run_length,
                                    pixel_pos + run_length, pixel_count)
              ELSE CommandsCover(db, delta_pos + 2,
                                 pixel_pos + (IF command = 0 THEN run_length ELSE 0),
                                 pixel_count)

\* the command stream decompress_frame_delta gets out of the record's payload
CommandsOf(record) ==
    compression_decode_buffer(record.header.width * record.header.height
                                * record.header.channels * 2, record.data)

\* C23: truncated delta command stream.  Whenever decompress_frame_delta has
\* run on a DELTA record whose entropy-decoded command stream ends in the
\* middle of a command (a command byte without its run length, or a 0x01 run
\* with fewer delta bytes than its run length) or does not cover all the
\* pixel bytes of the frame, it returned a decompression error and no frame.
C23_TruncatedRejected ==
    (codec_pc = "decoded_truncated"
       /\ ~CommandsCover(CommandsOf(compressed), 0, 0, Len(cur_frame.pixels)))
    => (decoded.result = GVC_ERROR_COMPRESSION /\ decoded.raw = NoRaw)

\* C25: dimension mismatch.  Whenever decompress_frame_delta has run on a
\* DELTA record and a predecessor whose width, height or channels differ from
\* the record's header, it returned an error and no frame (so nothing read
\* from the predecessor's pixels reached the output).
C25_MismatchRejected ==
    codec_pc = "decoded_mismatched"
    => (decoded.result # GVC_SUCCESS /\ decoded.raw = NoRaw)

\* C29: delta transform size bound.  Whenever compress_frame_delta has run on
\* a pair of frames of N bytes each, the command stream it wrote into
\* delta_buffer is at most 2N bytes long.
C29_DeltaSizeBound ==
    (/\ codec_pc # "input"
     /\ codec_pc = "crashed" \/ compressed.header.compression_type = 1)
    => Len(DeltaTransform(cur_frame.pixels, prev_frame.pixels, 0))
         <= 2 * Len(cur_frame.pixels)

\* C30: scenario S2.  Whenever compress_frame_delta has run on two identical
\* frames of 8 x 8 x 3 = 192 bytes, every byte 0x80, the record is DELTA, its
\* command stream is exactly (0x00, 64), (0x00, 64), (0x00, 64), and
\* decompress_frame_delta of it against the first frame gives the frame back.
C30_ScenarioS2 ==
    (/\ cur_frame = S2Frame /\ prev_frame = S2Frame
     /\ codec_pc \in {"compressed", "decoded"}
     /\ compressed.header.compression_type = 1)
    => /\ CommandsOf(compressed) = << 0, 64, 0, 64, 0, 64 >>
       /\ codec_pc = "decoded"
            => (decoded.result = GVC_SUCCESS /\ decoded.raw.pixels = S2Frame.pixels)

\* C24: missing reference.  In play_from_stdin, a commit whose record is a
\* DELTA record and which the decoder reached while it held no previous frame
\* (every commit before it failed to decode) was rejected with
\* GVC_ERROR_FORMAT: it is in the record of failed frames with that error
\* and its frame is neither queued nor presented.
C24_MissingReference ==
    main_pc # "idle" =>
      \A k \in 0..(decoder_data.current_commit - 1) :
        LET d == deserialize_frame(store.commits[commit_hashes[k + 1]].tree)
            DecodeFailed(j) ==
              \E e \in 1..Len(errors) :
                errors[e].commit = j /\ errors[e].result # GVC_ERROR_DISPLAY
        IN (/\ d.result = GVC_SUCCESS
            /\ d.frame.header.compression_type = 1
            /\ \A j \in 0..(k - 1) : DecodeFailed(j))
           => /\ \E e \in 1..Len(errors) :
                   errors[e] = [commit |-> k, result |-> GVC_ERROR_FORMAT]
              /\ \A p \in 1..Len(presented) : presented[p].commit # k
              /\ \A q \in 1..FRAME_BUFFER_SIZE : queue.frame_buffer[q].commit # k
              /\ dec_frame.commit # k /\ main_frame.commit # k

\* the first commit's blob is damaged, the DELTA record of the second was
\* rejected for want of a previous frame, and the player has finished
C24_Witness ==
    /\ main_pc = "done"
    /\ Len(errors) >= 2
    /\ errors[1].commit = 0 /\ errors[1].result = GVC_ERROR_FORMAT
    /\ errors[2] = [commit |-> 1, result |-> GVC_ERROR_FORMAT]
    /\ deserialize_frame(store.commits[commit_hashes[2]].tree).frame.header.compression_type = 1

\* C26: reserved bytes of written records.  Every record encode_video_sequence
\* has committed to the store has its three reserved header bytes (offset 29)
\* equal to zero.
C26_ReservedZero ==
    \A c \in 1..Len(store.commits) :
        Len(store.commits[c].tree) >= 32
          => Slice(store.commits[c].tree, 29, 3) = << 0, 0, 0 >>

\* C27: compressed size validation.  Whenever deserialize_frame has run on a
\* blob whose compressed_size field is 0 or exceeds the bytes that follow the
\* 32-byte header, it reported an error; no record is accepted without its
\* checksum having been compared with its payload.
C27_CompressedSizeValidated ==
    (/\ cont_pc = "parsed"
     /\ Len(wire) >= HEADER_BYTES
     /\ \/ ReadLE32(wire, 20) = 0
        \/ ReadLE32(wire, 20) > Len(wire) - HEADER_BYTES)
    => parsed.result # GVC_SUCCESS

\* C28: truncated record rejection.  Whenever deserialize_frame has run on a
\* buffer of size s, it read no byte at an offset >= s, and when s < 32 or
\* s < 32 + compressed_size it reported GVC_ERROR_FORMAT.
C28_TruncatedRejected ==
    cont_pc = "parsed" =>
      /\ deserialize_frame_extent(wire) <= Len(wire)
      /\ (\/ Len(wire) < HEADER_BYTES
          \/ Len(wire) < HEADER_BYTES + ReadLE32(wire, 20))
         => parsed.result = GVC_ERROR_FORMAT

\* a record with magic and target dimensions whose blob was cut inside its
\* payload has been rejected after the header was read
C28_Witness ==
    /\ cont_pc = "parsed"
    /\ tampered = "truncated"
    /\ Len(wire) > HEADER_BYTES
    /\ Len(wire) < HEADER_BYTES + ReadLE32(wire, 20)
    /\ ReadLE32(wire, 8) = FRAME_WIDTH
    /\ deserialize_frame_extent(wire) = HEADER_BYTES
    /\ parsed.result = GVC_ERROR_FORMAT

\* C31: the prefetcher warms the cache.  Whenever prefetch_worker has taken
\* an id of its list that is not in the cache and has finished its fetch,
\* the cache holds under that id the bytes of that commit's frame.bin blob.
C31_PrefetchWarms ==
    [][(pf_pc = "fetch" /\ pf_pc' = "take")
       => \E k \in 1..PREFETCH_CACHE_SIZE :
            /\ blob_cache'[k].valid = 1
            /\ blob_cache'[k].oid_str = pf_oid_str
            /\ git_blobs'[blob_cache'[k].blob].data = store.commits[pf_oid_str].tree]_vars

\* C32: prefetcher termination.  Once prefetch_worker has taken the last id
\* of its list it terminates, once git_stop_prefetch has
\* been called it terminates, and the join of git_stop_prefetch completes.
C32_PrefetchTerminates ==
    /\ (prefetch_queue_pos >= Len(commit_hashes)) ~> (pf_pc = "done")
    /\ (prefetch_running = 0) ~> (pf_pc = "done")
    /\ (rd_pc = "join") ~> (rd_pc = "done")

\* C33: store guard.  The prefetcher and the decode path are never inside an
\* object-store operation (commit, tree or blob lookup) at the same time, and
\* whichever of them is inside one holds repo_mutex.
C33_StoreGuard ==
    /\ ~(rd_pc = "load" /\ pf_pc = "fetch")
    /\ rd_pc = "load" => "repo_mutex" \in rd_held
    /\ pf_pc = "fetch" => "repo_mutex" \in pf_held
    /\ rd_held \cap pf_held = {}

\* the prefetcher is inside git_blob_lookup while the decode path, after a
\* cache miss, waits for repo_mutex
C33_Witness ==
    /\ pf_pc = "fetch" /\ "repo_mutex" \in pf_held
    /\ rd_pc = "lock_repo"
    /\ ~pthread_mutex_lock("repo_mutex", pf_held)

\* C38: lock discipline.  Neither the decode path nor the prefetch thread
\* ever holds two of cache_mutex, repo_mutex and prefetch_mutex; each of them
\* holds none when it is about to take one, when it waits on prefetch_cond
\* and when it has returned or left, whatever path it took; and the two are
\* never each waiting for a mutex the other holds.
C38_LockDiscipline ==
    /\ Cardinality(rd_held) <= 1
    /\ Cardinality(pf_held) <= 1
    /\ rd_pc \in {"idle", "copy_cached", "lock_repo", "lock_add", "join", "done"}
         => rd_held = {}
    /\ pf_pc \in {"idle", "take", "lock_find", "lock_repo", "wait", "wake", "done"}
         => pf_held = {}
    /\ ~(/\ rd_pc \in {"lock_repo", "lock_add"}
         /\ pf_pc \in {"lock_find", "lock_repo", "wake"}
         /\ pf_held # {} /\ rd_held # {})

\* git_read_blob_libgit2 has returned GVC_ERROR_GIT from under repo_mutex and
\* holds nothing, while the prefetch thread holds a mutex
C38_Witness ==
    /\ rd_pc = "idle"
    /\ rd_out.result = GVC_ERROR_GIT
    /\ rd_held = {}
    /\ pf_held = {"repo_mutex"}

\* C36: prefetch list lifetime.  In play_from_repo_metal the commit ids handed
\* to git_start_prefetch are released only after the prefetcher has been
\* stopped and joined: whenever the player has released them, it has joined
\* the prefetch thread before.
C36_PrefetchListLifetime ==
    \A j \in DOMAIN shutdown :
        shutdown[j] = "release_commit_hashes"
          => \E i \in 1..(j - 1) : shutdown[i] = "join_prefetch"

\* C34: queue drained at shutdown.  When play_from_stdin has returned, no
\* decoded frame is left in the frame queue: every frame that was still
\* queued has been taken out and released.
C34_QueueDrained ==
    main_pc = "done" => queue.buffer_count = 0

\* C35: single ownership of frame buffers.  In play_from_stdin every live
\* pixel buffer has exactly one owner: the live buffers are the frames in the
\* queue, the decoder's previous frame, the frame the main thread holds for
\* display, and the decoded frame with its copy while the decode worker is
\* putting it; when play_from_stdin has returned every buffer has been
\* released.
C35_SingleOwnership ==
    /\ main_pc \notin {"idle", "done"}
         => heap_live = queue.buffer_count
                          + decoder_data.has_previous_frame
                          + (IF main_pc = "display" THEN 1 ELSE 0)
                          + (IF dec_pc \in {"put", "wait_not_full"} THEN 2 ELSE 0)
    /\ main_pc = "done" => heap_live = 0

\* C37: lock-free ring correctness.  While the decode loop and the display
\* block run ring_put_frame and ring_get_frame (before the ring is released
\* at the end of playback), the frames ring_get_frame has returned are, in
\* order and unchanged, the first of the frames for which ring_put_frame
\* returned 1, each returned once; and when ring_put_frame copies a frame
\* into a slot, the consumer is not taking a frame from that slot and has
\* taken the slot's earlier frame.
C37_RingCorrect ==
    (mt_pc \notin {"idle", "crashed"}
       /\ \A k \in DOMAIN shutdown : shutdown[k] # "release_queue")
    => LET taken == presented
                      \o (IF disp_pc \in {"g_index", "g_decr", "display"}
                            THEN << disp_frame >> ELSE << >>)
       IN /\ Len(taken) <= Len(ring_put)
          /\ \A k \in 1..Len(taken) : taken[k] = ring_put[k]
          /\ mt_pc = "p_copy"
               => /\ frame_ring[put_idx + 1].ready = 0
                  /\ frame_ring[put_idx + 1].frame = NoSlot
                  /\ ~(disp_pc = "g_copy" /\ get_idx = put_idx)

\* the ring has wrapped around: the producer copies a later frame into the
\* slot the first frame was taken from while the consumer is taking a frame
\* from the other slot
C37_Witness ==
    /\ mt_pc = "p_copy" /\ disp_pc = "g_copy"
    /\ put_idx # get_idx
    /\ Len(ring_put) >= RING_BUFFER_SIZE
    /\ Len(presented) >= 1
    /\ \A k \in DOMAIN shutdown : shutdown[k] # "release_queue"

\* C39: encoder buffer release.  Every pointer encode_video_sequence has passed
\* to free is a buffer malloc had returned to it, and no pointer was passed to
\* free twice: previous_frame is never released before it has been assigned.
C39_EncoderRelease ==
    \A k \in DOMAIN enc_freed :
        /\ enc_freed[k] \in enc_malloced
        /\ \A j \in 1..(k - 1) : enc_freed[j] # enc_freed[k]

\* the C indexes decompress_frame_delta has used on the record in compressed
C40_Access ==
    LET pixel_count == compressed.header.width * compressed.header.height
                         * compressed.header.channels
        delta_buffer == compression_decode_buffer(pixel_count * 2, compressed.data)
    IN [delta_size |-> Len(delta_buffer), pixel_count |-> pixel_count,
        commands |-> delta_buffer,
        acc |-> DeltaAccess(delta_buffer, pixel_count, 0, 0,
                            [read |-> {}, written |-> {}])]

\* C40: delta decoder memory safety.  Whenever decompress_frame_delta has
\* decoded a DELTA record, whatever its command stream holds (unknown
\* commands, run lengths that overshoot, a stream cut short), every index at
\* which it read the command stream is below the stream's decoded length,
\* every index at which it wrote the output frame is below pixel_count, the
\* output holds pixel_count bytes, and the output differs from the
\* predecessor only at indexes the loop wrote.
C40_DeltaDecoderSafe ==
    (/\ codec_pc \in {"decoded", "decoded_truncated", "decoded_forged"}
     /\ compressed.header.compression_type = 1
     /\ decoded.result = GVC_SUCCESS)
    => LET a == C40_Access IN
       /\ \A r \in a.acc.read : 0 <= r /\ r < a.delta_size
       /\ \A w \in a.acc.written : 0 <= w /\ w < a.pixel_count
       /\ Len(decoded.raw.pixels) = a.pixel_count
       /\ \A k \in 1..a.pixel_count :
            decoded.raw.pixels[k] # prev_frame.pixels[k] => (k - 1) \in a.acc.written

\* C40 witness: a forged stream was decoded that starts with an unknown
\* command and goes on with a 0x01 run whose length overshoots both the frame
\* and the bytes left in the stream, and the run wrote the output.
C40_Witness ==
    /\ codec_pc = "decoded_forged"
    /\ decoded.result = GVC_SUCCESS
    /\ LET a == C40_Access IN
       /\ a.delta_size = MaxCommands
       /\ a.commands[1] \notin {0, 1}
       /\ a.commands[3] = 1
       /\ a.commands[4] > a.pixel_count
       /\ a.acc.written # {}
       /\ decoded.raw.pixels # prev_frame.pixels

=============================================================================
